---- MODULE Spec2Model ----
(***************************************************************************)
(* Model of the whisper_flash transcription pipeline: the multi-worker      *)
(* client (gcp_client.py: health check, upload executor, dispatch window,   *)
(* in-line polling, result files) and the worker service it talks to        *)
(* (worker/main.py: enqueue_chunk, process_queue, get_result).  The client  *)
(* is followed through the dispatch of one track; an upload either fails    *)
(* before the worker has enqueued anything or returns the worker's answer.  *)
(***************************************************************************)
EXTENDS Integers, Sequences, FiniteSets, TLC

\* ------------------------------------------------------------------ bounds
MaxWorkers == 2
MaxChunks == 3

\* ------------------------------------------------------------------ state
VARIABLES
    num_workers,    \* args.num_workers
    pc,             \* position of the client's main thread
    speaker,        \* label of the track being processed
    chunk_paths,    \* len(chunk_paths) of the track being processed
    chunk_iterator, \* order of the next chunk the iterator will yield
    futures,        \* the client's set `futures` (orders of the uploads)
    done,           \* the part of `done` the for loop has not visited yet
    future,         \* order of the future the for loop is visiting, or -1
    executor,       \* upload futures of the pool: order -> state and result
    track_jobs,     \* chunk_id -> job_info dict
    cur_id,         \* chunk_id of the job_info the loop body holds, or 0
    results_dir,    \* result files: file name -> content
    pbar,           \* progress bar count of the track
    slept,          \* seconds of the last time.sleep of the running poll loop
    task_queue,     \* per worker: queue of (chunk_id, audio)
    results_store,  \* per worker: chunk_id -> result dict
    processing,     \* per worker: <<task>> being transcribed, or <<>>
    request,        \* <<status request in flight>>, or <<>>
    submitted,      \* history: orders handed to executor.submit, in order
    writes,         \* history: file name -> number of times it was written
    all_words,      \* postprocess_results: the word timeline
    cumulative_time,  \* postprocess_results: the running time offset
    final_transcript, \* postprocess_results: the phrases
    output_file,    \* <<content of the _diarized.json file>>, or <<>>
    token_cache,    \* proxy: _token_cache, target_url -> {"tok", "exp"}
    lock,           \* proxy: <<handler that holds _lock>>, or <<>>
    clock,          \* proxy: time.time()
    handlers,       \* proxy: the request handlers: position and locals
    fetches,        \* proxy history: the identity tokens fetched, in order
    chunk_jobs,     \* local client: chunk_id -> job_info dict
    completed_jobs, \* local client: count of the jobs that have ended
    full_text       \* local client: <<the transcript written>>, or <<>>

vars == <<num_workers, pc, speaker, chunk_paths,
          chunk_iterator, futures, done, future, executor, track_jobs,
          cur_id, results_dir, pbar, slept, task_queue, results_store,
          processing, request, submitted, writes, all_words,
          cumulative_time, final_transcript, output_file, token_cache,
          lock, clock, handlers, fetches, chunk_jobs, completed_jobs,
          full_text>>

main_vars == <<pc, speaker, chunk_paths, chunk_iterator,
               futures, done, future, track_jobs, cur_id, results_dir, pbar,
               slept, request, submitted, writes, all_words,
               cumulative_time, final_transcript, output_file, token_cache,
               lock, clock, handlers, fetches, chunk_jobs, completed_jobs,
               full_text>>

postprocess_vars ==
    <<all_words, cumulative_time, final_transcript, output_file>>

worker_vars == <<task_queue, results_store, processing>>

proxy_vars == <<token_cache, lock, clock, handlers, fetches>>

\* what the proxy leaves alone: the client, the workers, the local client
proxy_frame ==
    <<num_workers, pc, speaker, chunk_paths, chunk_iterator, futures, done,
      future, executor, track_jobs, cur_id, results_dir, pbar, slept,
      task_queue, results_store, processing, request, submitted, writes,
      all_words, cumulative_time, final_transcript, output_file, chunk_jobs,
      completed_jobs, full_text>>

local_vars == <<chunk_jobs, completed_jobs, full_text>>

\* the state of the programs main of gcp_client.py does not touch: the
\* proxy and the local client
other_vars == <<proxy_vars, local_vars>>

None == <<>>
EmptyDict == <<>>
Workers == 0 .. (num_workers - 1)

\* a client for which an error status does not end the polling
Terminal_without_error == {"completed"}

\* ["completed", "error"]
Terminal == {"completed", "error"}

\* ---------------------------------------------------------------- helpers
\* dict.get(key, default)
DictGet(d, k, default) == IF k \in DOMAIN d THEN d[k] ELSE default

\* an update that puts the other dict in the place of the dict
DictUpdate_replacing(d, other) == other

\* dict.update(other): keys of other win, the other keys are kept
DictUpdate(d, other) == other @@ d

\* d[k] = v
DictSet(d, k, v) == (k :> v) @@ d

\* the label extract_tracks gives the track that is followed:
\* f"track_{stream_index}" of the first audio stream
TrackLabels == {"track_0"}

\* str(uuid.uuid4()) of the worker: a fresh id for every POST; the POST of
\* the n-th executor.submit of the run is given the id n
uuid4(n) == n

\* the audio of a chunk file: which track and which piece of it
Audio(label, i) == <<label, i>>

\* model.transcribe + " ".join(...): the text heard in the audio
Transcribe(audio) == <<"text of", audio>>

\* f"{speaker}_chunk_{order:04d}.json"
result_filename(label, order) == <<label, "_chunk_", order, ".json">>

\* an assignment that gives every chunk to the first worker
worker_id_of_first(i, n) == 0

\* worker_id = i % num_workers
worker_id_of(i, n) == i % n

\* an iterator that leaves out every other chunk
iterator_after_skipping(i) == i + 2

\* next(chunk_iterator) yielded chunk i: the iterator moves to the next one
iterator_after(i) == i + 1

\* a window one larger than the worker count
max_concurrent_jobs_plus_one(n) == n + 1

\* a window one smaller than the worker count
max_concurrent_jobs_minus_one(n) == n - 1

\* max_concurrent_jobs = args.num_workers
max_concurrent_jobs(n) == n

\* the dict upload_chunk returns on success
new_job_info(id, label, i, w) ==
    [chunk_id |-> id, path |-> Audio(label, i), status |-> "queued",
     order |-> i, worker_id |-> w]

\* while job_info["status"] not in ["completed", "error"]
poll_loop_cond(job) == job["status"] \notin Terminal

\* if result["status"] in ["completed", "error"]: break
poll_break(result) == result["status"] \in Terminal

\* result_data = job_info.get("result", {}); result_data['speaker'] = speaker
result_data(job, label) ==
    DictSet(DictGet(job, "result", EmptyDict), "speaker", label)

\* a loop body that ends right after an upload that returned None
after_upload_failed_end_of_body == "for"

\* if job_info: is false, the next statement is pbar.update(1)
after_upload_failed == "advance"

\* the job_info object the loop body holds
job_info == track_jobs[cur_id]

\* no request handler of the proxy exists and its cache is empty
ProxyIdle ==
    /\ token_cache = EmptyDict
    /\ lock = None
    /\ clock = 0
    /\ handlers = <<>>
    /\ fetches = <<>>

\* the local client has not been started
LocalIdle ==
    /\ chunk_jobs = EmptyDict
    /\ completed_jobs = 0
    /\ full_text = None

\* ------------------------------------------------------------------- Init
Init ==
    /\ num_workers \in 1 .. MaxWorkers
    /\ pc = "health_check"
    /\ speaker = ""
    /\ chunk_paths = 0
    /\ chunk_iterator = 0
    /\ futures = {}
    /\ done = {}
    /\ future = -1
    /\ executor = EmptyDict
    /\ track_jobs = EmptyDict
    /\ cur_id = 0
    /\ results_dir = EmptyDict
    /\ pbar = 0
    /\ slept = 0
    /\ task_queue = [w \in Workers |-> <<>>]
    /\ results_store = [w \in Workers |-> EmptyDict]
    /\ processing = [w \in Workers |-> None]
    /\ request = None
    /\ submitted = <<>>
    /\ writes = EmptyDict
    /\ all_words = <<>>
    /\ cumulative_time = 0
    /\ final_transcript = <<>>
    /\ output_file = None
    /\ ProxyIdle
    /\ LocalIdle

\* ------------------------------------------------- client: start of main
\* health_check_workers: every worker is pinged; the run goes on when at
\* least one answered
health_check_workers ==
    /\ pc = "health_check"
    /\ \E ok \in SUBSET Workers :
        LET success_count == Cardinality(ok)
        IN pc' = IF success_count = 0 THEN "aborted" ELSE "extract_tracks"
    /\ UNCHANGED <<num_workers, speaker, chunk_paths,
                   chunk_iterator, futures, done, future, executor,
                   track_jobs, cur_id, results_dir, pbar, slept, request,
                   submitted, writes>>
    /\ UNCHANGED worker_vars
    /\ UNCHANGED postprocess_vars
    /\ UNCHANGED other_vars

\* extract_tracks, then the head of the track loop: the model follows main
\* through one track of the picked file; without tracks main returns
extract_tracks ==
    /\ pc = "extract_tracks"
    /\ \/ /\ pc' = "exit"
          /\ UNCHANGED speaker
       \/ /\ speaker' \in TrackLabels
          /\ pc' = "chunk_audio"
    /\ UNCHANGED <<num_workers, chunk_paths, chunk_iterator,
                   futures, done, future, executor, track_jobs, cur_id,
                   results_dir, pbar, slept, request, submitted, writes>>
    /\ UNCHANGED worker_vars
    /\ UNCHANGED postprocess_vars
    /\ UNCHANGED other_vars

\* executor.submit(upload_chunk, (chunk_path, i, session, num_workers)) and
\* futures.add; the new thread computes worker_id = i % num_workers
Submit(i) ==
    /\ executor' = DictSet(executor, i,
                     [state |-> "running",
                      worker_id |-> worker_id_of(i, num_workers),
                      post |-> Len(submitted) + 1,
                      chunk_id |-> 0, result |-> None])
    /\ futures' = futures \cup {i}
    /\ submitted' = Append(submitted, i)
    /\ chunk_iterator' = iterator_after(i)

\* chunk_paths = chunk_audio_with_ffmpeg(wav_path); a track without chunks
\* is skipped; else track_jobs = {} and a new executor
chunk_audio ==
    /\ pc = "chunk_audio"
    /\ \E n \in 0 .. MaxChunks :
        /\ chunk_paths' = n
        /\ pc' = IF n = 0 THEN "postprocess" ELSE "initial_submit"
    /\ track_jobs' = EmptyDict
    /\ UNCHANGED <<num_workers, speaker, chunk_iterator, futures,
                   done, future, executor, cur_id, results_dir, pbar, slept,
                   request, submitted, writes>>
    /\ UNCHANGED worker_vars
    /\ UNCHANGED postprocess_vars
    /\ UNCHANGED other_vars

\* for _ in range(max_concurrent_jobs): submit the next chunk, break when
\* the iterator is exhausted; every pass takes one chunk, so the position of
\* the iterator is the number of passes made
initial_submit ==
    /\ pc = "initial_submit"
    /\ IF chunk_iterator < max_concurrent_jobs(num_workers)
          /\ chunk_iterator < chunk_paths
       THEN /\ Submit(chunk_iterator)
            /\ pc' = "initial_submit"
       ELSE /\ pc' = "while"
            /\ UNCHANGED <<executor, futures, submitted, chunk_iterator>>
    /\ UNCHANGED <<num_workers, speaker, chunk_paths,
                   done, future, track_jobs, cur_id, results_dir, pbar, slept,
                   request, writes>>
    /\ UNCHANGED worker_vars
    /\ UNCHANGED postprocess_vars
    /\ UNCHANGED other_vars

\* while futures: ... falls through when the set is empty; the executor and
\* the progress bar are closed and post-processing follows
while_exit ==
    /\ pc = "while"
    /\ futures = {}
    /\ pc' = "postprocess"
    /\ UNCHANGED <<num_workers, speaker, chunk_paths,
                   chunk_iterator, futures, done, future, executor,
                   track_jobs, cur_id, results_dir, pbar, slept, request,
                   submitted, writes>>
    /\ UNCHANGED worker_vars
    /\ UNCHANGED postprocess_vars
    /\ UNCHANGED other_vars

\* done, futures = wait(futures, return_when=FIRST_COMPLETED)
wait ==
    /\ pc = "while"
    /\ futures # {}
    /\ LET finished == {i \in futures : executor[i].state = "done"}
       IN /\ finished # {}
          /\ done' = finished
          /\ futures' = futures \ finished
    /\ pc' = "for"
    /\ UNCHANGED <<num_workers, speaker, chunk_paths,
                   chunk_iterator, future, executor, track_jobs, cur_id,
                   results_dir, pbar, slept, request, submitted, writes>>
    /\ UNCHANGED worker_vars
    /\ UNCHANGED postprocess_vars
    /\ UNCHANGED other_vars

\* for future in done: job_info = future.result(); if job_info: register
\* it in track_jobs and enter the poll loop
for_next ==
    /\ pc = "for"
    /\ done # {}
    /\ \E f \in done :
        /\ future' = f
        /\ done' = done \ {f}
        /\ LET res == executor[f].result
           IN IF res # None
              THEN /\ track_jobs' = DictSet(track_jobs, res[1]["chunk_id"],
                                            res[1])
                   /\ cur_id' = res[1]["chunk_id"]
                   /\ pc' = IF poll_loop_cond(res[1]) THEN "poll" ELSE "save"
              ELSE /\ pc' = after_upload_failed
                   /\ UNCHANGED <<track_jobs, cur_id>>
    /\ slept' = 0
    /\ UNCHANGED <<num_workers, speaker, chunk_paths,
                   chunk_iterator, futures, executor, results_dir, pbar,
                   request, submitted, writes>>
    /\ UNCHANGED worker_vars
    /\ UNCHANGED postprocess_vars
    /\ UNCHANGED other_vars

\* the for loop is over: back to the while test
for_end ==
    /\ pc = "for"
    /\ done = {}
    /\ pc' = "while"
    /\ UNCHANGED <<num_workers, speaker, chunk_paths,
                   chunk_iterator, futures, done, future, executor,
                   track_jobs, cur_id, results_dir, pbar, slept, request,
                   submitted, writes>>
    /\ UNCHANGED worker_vars
    /\ UNCHANGED postprocess_vars
    /\ UNCHANGED other_vars

\* ------------------------------------------------------ client: poll loop
\* a handler that reports every id as queued
get_result_queued(w, id) ==
    [status_code |-> 200, json |-> [status |-> "queued"]]

\* the worker's get_result handler: the stored dict, or 404 when the id is
\* unknown
get_result(w, id) ==
    IF id \in DOMAIN results_store[w]
    THEN [status_code |-> 200, json |-> results_store[w][id]]
    ELSE [status_code |-> 404, json |-> [detail |-> "Chunk ID not found."]]

\* session.get(f"{PROXY_URL}/{worker_id}/get_result/{chunk_id}", timeout=10)
poll_request ==
    /\ pc = "poll"
    /\ request' = <<[worker_id |-> job_info["worker_id"],
                     chunk_id |-> job_info["chunk_id"]]>>
    /\ pc' = "poll_wait"
    /\ UNCHANGED <<num_workers, speaker, chunk_paths,
                   chunk_iterator, futures, done, future, executor,
                   track_jobs, cur_id, results_dir, pbar, slept, submitted,
                   writes>>
    /\ UNCHANGED worker_vars
    /\ UNCHANGED postprocess_vars
    /\ UNCHANGED other_vars

\* a poll loop that gives the job up at the first failed request
poll_exception_gives_up ==
    /\ slept' = 0
    /\ pc' = "save"
    /\ UNCHANGED track_jobs

\* except requests.exceptions.RequestException: time.sleep(2)
poll_exception ==
    /\ slept' = 2
    /\ pc' = IF poll_loop_cond(job_info) THEN "poll" ELSE "save"
    /\ UNCHANGED track_jobs

\* the request got no answer from the worker: connection error, timeout or
\* an error status of the proxy
poll_transport_failure ==
    /\ pc = "poll_wait"
    /\ request' = None
    /\ poll_exception
    /\ UNCHANGED <<num_workers, speaker, chunk_paths,
                   chunk_iterator, futures, done, future, executor, cur_id,
                   results_dir, pbar, submitted, writes>>
    /\ UNCHANGED worker_vars
    /\ UNCHANGED postprocess_vars
    /\ UNCHANGED other_vars

\* the worker answered: raise_for_status, job_info.update(result), break on
\* a terminal status, else time.sleep(1) and the while test
poll_response ==
    /\ pc = "poll_wait"
    /\ LET response == get_result(request[1].worker_id, request[1].chunk_id)
           result == response.json
       IN IF response.status_code # 200
          THEN poll_exception
          ELSE /\ track_jobs' = DictSet(track_jobs, cur_id,
                                        DictUpdate(job_info, result))
               /\ IF poll_break(result)
                  THEN /\ pc' = "save"
                       /\ slept' = 0
                  ELSE /\ slept' = 1
                       /\ pc' = IF poll_loop_cond(DictUpdate(job_info, result))
                                THEN "poll" ELSE "save"
    /\ request' = None
    /\ UNCHANGED <<num_workers, speaker, chunk_paths,
                   chunk_iterator, futures, done, future, executor, cur_id,
                   results_dir, pbar, submitted, writes>>
    /\ UNCHANGED worker_vars
    /\ UNCHANGED postprocess_vars
    /\ UNCHANGED other_vars

\* a client that saves a file for every job that has ended
is_completed_or_error(job) == job["status"] \in {"completed", "error"}

\* if job_info["status"] == "completed":
is_completed(job) == job["status"] = "completed"

\* if job_info["status"] == "completed": write the result file
save ==
    /\ pc = "save"
    /\ IF is_completed(job_info)
       THEN LET name == result_filename(speaker, job_info["order"])
            IN /\ results_dir' = DictSet(results_dir, name,
                                         result_data(job_info, speaker))
               /\ writes' = DictSet(writes, name, DictGet(writes, name, 0) + 1)
       ELSE UNCHANGED <<results_dir, writes>>
    /\ pc' = "advance"
    /\ UNCHANGED <<num_workers, speaker, chunk_paths,
                   chunk_iterator, futures, done, future, executor,
                   track_jobs, cur_id, pbar, slept, request, submitted>>
    /\ UNCHANGED worker_vars
    /\ UNCHANGED postprocess_vars
    /\ UNCHANGED other_vars

\* pbar.update(1), then submit the next chunk unless the iterator is
\* exhausted
advance ==
    /\ pc = "advance"
    /\ pbar' = pbar + 1
    /\ IF chunk_iterator < chunk_paths
       THEN Submit(chunk_iterator)
       ELSE UNCHANGED <<executor, futures, submitted, chunk_iterator>>
    /\ future' = -1
    /\ cur_id' = 0
    /\ pc' = "for"
    /\ UNCHANGED <<num_workers, speaker, chunk_paths,
                   done, track_jobs, results_dir, slept, request, writes>>
    /\ UNCHANGED worker_vars
    /\ UNCHANGED postprocess_vars
    /\ UNCHANGED other_vars

\* ------------------------------------------------ client: upload threads
\* except requests.exceptions.RequestException: the POST did not reach the
\* worker's handler (connection error, timeout, error status of the proxy)
\* or the handler failed to save the file; upload_chunk returns None
upload_fails(i) ==
    /\ i \in DOMAIN executor
    /\ executor[i].state = "running"
    /\ executor' = [executor EXCEPT ![i].state = "done", ![i].result = None]
    /\ UNCHANGED num_workers
    /\ UNCHANGED main_vars
    /\ UNCHANGED worker_vars

\* the worker's enqueue_chunk handler, run for the POST of upload i
enqueue_chunk(i) ==
    /\ i \in DOMAIN executor
    /\ executor[i].state = "running"
    /\ LET w == executor[i].worker_id
           chunk_id == uuid4(executor[i].post)
       IN /\ task_queue' = [task_queue EXCEPT ![w] =
                Append(@, [chunk_id |-> chunk_id,
                           file_path |-> Audio(speaker, i)])]
          /\ results_store' = [results_store EXCEPT ![w] =
                DictSet(@, chunk_id, [status |-> "queued"])]
          /\ executor' = [executor EXCEPT ![i].state = "posted",
                                          ![i].chunk_id = chunk_id]
    /\ UNCHANGED processing
    /\ UNCHANGED num_workers
    /\ UNCHANGED main_vars

\* the answer arrived: upload_chunk returns the job_info dict
upload_returns(i) ==
    /\ i \in DOMAIN executor
    /\ executor[i].state = "posted"
    /\ executor' = [executor EXCEPT
            ![i].state = "done",
            ![i].result = <<new_job_info(executor[i].chunk_id, speaker, i,
                                         executor[i].worker_id)>>]
    /\ UNCHANGED num_workers
    /\ UNCHANGED main_vars
    /\ UNCHANGED worker_vars

\* ------------------------------------------------- worker: process_queue
\* a processor that takes the task put last
task_queue_get_newest(w) ==
    /\ processing[w] = None
    /\ task_queue[w] # <<>>
    /\ processing' = [processing EXCEPT ![w] =
                        <<task_queue[w][Len(task_queue[w])]>>]
    /\ task_queue' = [task_queue EXCEPT ![w] = SubSeq(@, 1, Len(@) - 1)]
    /\ UNCHANGED <<results_store, executor>>
    /\ UNCHANGED num_workers
    /\ UNCHANGED main_vars

\* chunk_id, file_path = await task_queue.get()
task_queue_get(w) ==
    /\ processing[w] = None
    /\ task_queue[w] # <<>>
    /\ processing' = [processing EXCEPT ![w] = <<Head(task_queue[w])>>]
    /\ task_queue' = [task_queue EXCEPT ![w] = Tail(@)]
    /\ UNCHANGED <<results_store, executor>>
    /\ UNCHANGED num_workers
    /\ UNCHANGED main_vars

\* the transcription returned: the completed result is stored
transcribe_completed(w) ==
    /\ processing[w] # None
    /\ LET task == processing[w][1]
       IN results_store' = [results_store EXCEPT ![w] =
            DictSet(@, task.chunk_id,
                    [status |-> "completed",
                     text |-> Transcribe(task.file_path)])]
    /\ processing' = [processing EXCEPT ![w] = None]
    /\ UNCHANGED <<task_queue, executor>>
    /\ UNCHANGED num_workers
    /\ UNCHANGED main_vars

\* the transcription raised: the error result is stored
transcribe_error(w) ==
    /\ processing[w] # None
    /\ LET task == processing[w][1]
       IN results_store' = [results_store EXCEPT ![w] =
            DictSet(@, task.chunk_id,
                    [status |-> "error", message |-> "transcription failed"])]
    /\ processing' = [processing EXCEPT ![w] = None]
    /\ UNCHANGED <<task_queue, executor>>
    /\ UNCHANGED num_workers
    /\ UNCHANGED main_vars

\* ------------------------------------------------------------------- Next
Orders == 0 .. (MaxChunks - 1)

Next ==
    \/ health_check_workers
    \/ extract_tracks
    \/ chunk_audio
    \/ initial_submit
    \/ while_exit
    \/ wait
    \/ for_next
    \/ for_end
    \/ poll_request
    \/ poll_transport_failure
    \/ poll_response
    \/ save
    \/ advance
    \/ \E i \in Orders : upload_fails(i)
    \/ \E i \in Orders : enqueue_chunk(i)
    \/ \E i \in Orders : upload_returns(i)
    \/ \E w \in Workers : task_queue_get(w)
    \/ \E w \in Workers : transcribe_completed(w)
    \/ \E w \in Workers : transcribe_error(w)

Spec == Init /\ [][Next]_vars

\* ----------------------------------------------------------------- fairness
\* The threads of the client run: the main thread takes its next step and
\* every upload request returns (timeout=30).  The worker's event loop takes
\* the next task of its queue.
ClientFairness ==
    /\ WF_vars(health_check_workers \/ extract_tracks \/ chunk_audio
                \/ initial_submit \/ while_exit \/ wait \/ for_next
                \/ for_end \/ poll_request \/ save \/ advance)
    /\ WF_vars(poll_transport_failure \/ poll_response)
    /\ WF_vars(\E i \in Orders : upload_fails(i) \/ enqueue_chunk(i))
    /\ WF_vars(\E i \in Orders : upload_returns(i))

WorkerFairness ==
    WF_vars(\E w \in Workers : task_queue_get(w))

\* a status request that is repeated is answered by the worker in the end
PollFairness == SF_vars(poll_response)

\* every transcription ends; nothing in process_queue bounds model.transcribe
\* (no timeout), so this is a hypothesis about the model, not a guarantee
TranscribeFairness ==
    \A w \in 0 .. (MaxWorkers - 1) :
        WF_vars(w \in Workers
                /\ (transcribe_completed(w) \/ transcribe_error(w)))

\* the client and the network are fair, a transcription may take for ever
FairSpec == Spec /\ ClientFairness /\ WorkerFairness /\ PollFairness

\* and every transcription ends; termination is explored for one and for two
\* healthy workers
LiveWorkers == {1, 2}
LiveInit == Init /\ num_workers \in LiveWorkers
LiveSpec ==
    /\ LiveInit /\ [][Next]_vars
    /\ ClientFairness /\ WorkerFairness /\ PollFairness /\ TranscribeFairness

\* =================================================================== claims
\* what the client knows of chunk i
Submitted(i) == \E k \in 1 .. Len(submitted) : submitted[k] = i
Dropped(i) ==
    /\ i \in DOMAIN executor
    /\ executor[i].state = "done"
    /\ executor[i].result = None
JobsOfOrder(i) == {id \in DOMAIN track_jobs : track_jobs[id]["order"] = i}
TerminalAtClient(i) ==
    \E id \in JobsOfOrder(i) :
        track_jobs[id]["status"] \in {"completed", "error"}
InFlight == {i \in Orders : Submitted(i) /\ ~Dropped(i) /\ ~TerminalAtClient(i)}
DispatchOver == pc = "postprocess" /\ chunk_paths > 0

\* C1: at every moment the chunks of the track that were submitted for
\* upload and are neither terminal at the client nor dropped by an upload
\* failure number at most max_concurrent_jobs = num_workers.
C1_WindowBound == Cardinality(InFlight) <= num_workers

\* the window is full again after it has moved past the first chunks
C1_Witness ==
    /\ num_workers = 2
    /\ chunk_iterator = 3
    /\ Cardinality(InFlight) = 2

\* C2: the chunks are submitted in increasing order without a gap, starting
\* with chunk 0, none of them twice, whatever uploads failed and whatever
\* jobs ended in error; when the dispatch loop is over every chunk of the
\* track has been submitted.
C2_SubmitOrder ==
    /\ \A k \in 1 .. Len(submitted) : submitted[k] = k - 1
    /\ Len(submitted) <= chunk_paths
    /\ chunk_iterator = Len(submitted)
    /\ DispatchOver => Len(submitted) = chunk_paths

\* a whole track was dispatched although an upload failed and a job ended in
\* error before the last chunk was submitted
C2_Witness ==
    /\ DispatchOver
    /\ chunk_paths = 3
    /\ Dropped(0)
    /\ \E id \in JobsOfOrder(1) : track_jobs[id]["status"] = "error"
    /\ Submitted(2)

\* C3: the upload of chunk i goes to worker i mod num_workers, the job it
\* creates lives at that worker, and every status request for the job goes
\* to that worker, whatever the health check found and however many jobs
\* the worker holds.
C3_StaticRoundRobin ==
    /\ \A i \in DOMAIN executor :
        /\ executor[i].worker_id = i % num_workers
        /\ executor[i].chunk_id # 0 =>
              executor[i].chunk_id \in DOMAIN results_store[i % num_workers]
    /\ \A w \in Workers : \A id \in DOMAIN results_store[w] :
        \A i \in DOMAIN executor :
            executor[i].chunk_id = id => w = i % num_workers
    /\ \A id \in DOMAIN track_jobs :
        track_jobs[id]["worker_id"] = track_jobs[id]["order"] % num_workers
    /\ request # None =>
        /\ request[1].chunk_id \in DOMAIN track_jobs
        /\ request[1].worker_id =
              track_jobs[request[1].chunk_id]["order"] % num_workers

\* a status request for chunk 2 is on its way to worker 0 while worker 0
\* has two tasks to do and worker 1 has none
C3_Witness ==
    /\ num_workers = 2
    /\ Len(task_queue[1]) + Len(processing[1]) = 0
    /\ request # None
    /\ request[1].worker_id = 0
    /\ track_jobs[request[1].chunk_id]["order"] = 2
    /\ Len(task_queue[0]) + Len(processing[0]) = 2

\* what the worker knows of chunk i
TerminalAtWorker(i) ==
    /\ i \in DOMAIN executor
    /\ executor[i].chunk_id # 0
    /\ results_store[executor[i].worker_id][executor[i].chunk_id]["status"]
          \in {"completed", "error"}
Accepted(i) ==
    /\ i \in DOMAIN executor
    /\ executor[i].state = "done"
    /\ executor[i].result # None

\* C4: whenever a job in flight is terminal at its worker while a chunk of
\* the track is still to be submitted, that chunk is submitted in the end,
\* whether or not the other jobs in flight ever become terminal.
C4_NextChunkAdmitted ==
    \A k \in Orders :
        (/\ chunk_iterator = k
         /\ k < chunk_paths
         /\ \E i \in InFlight : TerminalAtWorker(i))
        ~> (chunk_iterator > k)

\* C5: the poll loops of the jobs in flight run side by side: a job whose
\* upload has returned does not wait for its own polling while the poll
\* loop of another job has not reached a terminal status.
C5_PollingDoesNotWait ==
    \A i \in Orders :
        (Accepted(i) /\ ~TerminalAtClient(i) /\ cur_id # executor[i].chunk_id)
        => ~(cur_id # 0 /\ track_jobs[cur_id]["status"] = "queued")

\* C6: the status of a job at the client starts as queued and changes only
\* from queued to completed or to error; a status request is sent for a job
\* only while its status is queued, so never after a response reported
\* completed or error.
C6_StatusOnlyForward ==
    /\ [](\A id \in DOMAIN track_jobs :
            track_jobs[id]["status"] \in {"queued", "completed", "error"})
    /\ []((pc = "poll" \/ request # None)
            => track_jobs[cur_id]["status"] = "queued")
    /\ [](request # None => request[1].chunk_id = cur_id)
    /\ [][\A id \in DOMAIN track_jobs' :
            IF id \in DOMAIN track_jobs
            THEN \/ track_jobs'[id]["status"] = track_jobs[id]["status"]
                 \/ /\ track_jobs[id]["status"] = "queued"
                    /\ track_jobs'[id]["status"] \in {"completed", "error"}
            ELSE track_jobs'[id]["status"] = "queued"]_vars

\* a job ended in error at the client and the next job is being polled
C6_Witness ==
    /\ \E id \in DOMAIN track_jobs : track_jobs[id]["status"] = "error"
    /\ \E id \in DOMAIN track_jobs : track_jobs[id]["status"] = "completed"
    /\ request # None

\* C7: a chunk whose upload failed has no job record and no result file and
\* is not submitted again; the run goes on: the loop body goes straight to
\* its last part, which submits the next chunk of the iterator exactly as it
\* does after a terminal job.
C7_UploadFailureDropsChunk ==
    /\ [](\A i \in Orders : Dropped(i) =>
            /\ JobsOfOrder(i) = {}
            /\ result_filename(speaker, i) \notin DOMAIN results_dir
            /\ Cardinality({k \in 1 .. Len(submitted) : submitted[k] = i}) = 1
            /\ pc \notin {"aborted", "exit"})
    /\ [][(future' # future /\ future' # -1 /\ Dropped(future'))
            => (pc' = "advance" /\ track_jobs' = track_jobs)]_vars
    /\ [][(pc = "advance" /\ pc' # "advance")
            => /\ pc' = "for"
               /\ pbar' = pbar + 1
               /\ IF chunk_iterator < chunk_paths
                  THEN /\ submitted' = Append(submitted, chunk_iterator)
                       /\ executor'[chunk_iterator].state = "running"
                       /\ chunk_iterator \in futures'
                  ELSE submitted' = submitted]_vars

\* the upload of chunk 1 failed and chunk 2 was submitted while chunk 0 is
\* still in flight
C7_Witness ==
    /\ num_workers = 2
    /\ Dropped(1)
    /\ Submitted(2)
    /\ 0 \in InFlight
    /\ pbar = 1

\* C8: a status request that fails leaves the job as it is, queued and in
\* track_jobs, and the poll loop of that same job goes on after the sleep
\* of 2 seconds with the next request; nothing counts the attempts.
C8_PollFailureRetries ==
    /\ [][poll_transport_failure =>
            /\ track_jobs' = track_jobs
            /\ cur_id' = cur_id
            /\ track_jobs'[cur_id']["status"] = "queued"
            /\ slept' = 2
            /\ pc' = "poll"
            /\ <<futures, done, pbar, submitted>>' =
                    <<futures, done, pbar, submitted>>]_vars
    /\ []((pc = "poll" /\ slept = 2) => ENABLED poll_request)

\* a request for a job is in flight after an earlier request for the same
\* job failed
C8_Witness ==
    /\ slept = 2
    /\ request # None
    /\ request[1].chunk_id = cur_id

\* every chunk of the track is either a dropped upload without a job or has
\* exactly one job, which is terminal
Accounted ==
    \A i \in 0 .. (chunk_paths - 1) :
        \/ Dropped(i) /\ JobsOfOrder(i) = {}
        \/ /\ Accepted(i)
           /\ JobsOfOrder(i) = {executor[i].chunk_id}
           /\ TerminalAtClient(i)

\* C9: when uploads return, transcriptions end and repeated status requests
\* are answered, the dispatch loop of a track ends; then every job is
\* terminal and every chunk is accounted for once, as a terminal job or as a
\* dropped upload.
C9_DispatchTerminates ==
    (pc = "initial_submit") ~>
        (/\ pc = "postprocess"
         /\ futures = {}
         /\ done = {}
         /\ pbar = chunk_paths
         /\ Len(submitted) = chunk_paths
         /\ Cardinality(DOMAIN track_jobs) + Cardinality({i \in Orders : Dropped(i)})
                = chunk_paths
         /\ Accounted)

\* the loop has ended for a track with a dropped upload, an error job and a
\* completed job
C9_Witness ==
    /\ DispatchOver
    /\ chunk_paths = 3
    /\ \E i \in Orders : Dropped(i)
    /\ \E id \in DOMAIN track_jobs : track_jobs[id]["status"] = "error"
    /\ \E id \in DOMAIN track_jobs : track_jobs[id]["status"] = "completed"

\* C10: every completed job that has passed the save step has one result
\* file, named by the speaker label and the order of the job, written once,
\* holding the worker's completed payload (text and segments) and the
\* speaker label; there is no other result file.
C10_ResultFileContent ==
    /\ \A id \in DOMAIN track_jobs :
        LET job == track_jobs[id]
            name == result_filename(speaker, job["order"])
            payload == results_store[job["worker_id"]][id]
        IN (job["status"] = "completed" /\ ~(cur_id = id /\ pc = "save")) =>
            /\ name \in DOMAIN results_dir
            /\ writes[name] = 1
            /\ results_dir[name]["speaker"] = speaker
            /\ {"text", "segments"} \subseteq DOMAIN results_dir[name]
            /\ \A key \in DOMAIN payload \ {"status"} :
                /\ key \in DOMAIN results_dir[name]
                /\ results_dir[name][key] = payload[key]
    /\ \A name \in DOMAIN results_dir :
        \E id \in DOMAIN track_jobs :
            /\ track_jobs[id]["status"] = "completed"
            /\ name = result_filename(speaker, track_jobs[id]["order"])

\* ============================================================ aggregation
\* postprocess_results(results_dir) of gcp_client.py; process_results of
\* postprocess.py runs the same steps.  Times are whole seconds.  A string is
\* the sequence of its pieces: a piece is a run of non-blank characters or
\* one blank, so "" is <<>> and " hi" is <<" ", "hi">>.
MaxTime == 2
MaxSegWords == 2

\* PHRASE_BREAK_THRESHOLD = 1.0
PHRASE_BREAK_THRESHOLD == 1

\* the labels extract_tracks gives the first two audio streams, in the
\* order sorted() puts them
label_order == <<"track_0", "track_1">>

\* str.strip()
RECURSIVE lstrip(_)
lstrip(s) == IF s # <<>> /\ Head(s) = " " THEN lstrip(Tail(s)) ELSE s

RECURSIVE rstrip(_)
rstrip(s) ==
    IF s # <<>> /\ s[Len(s)] = " "
    THEN rstrip(SubSeq(s, 1, Len(s) - 1))
    ELSE s

strip(s) == rstrip(lstrip(s))

\* results_dir.glob("*.json"): the names of the files, in an order the
\* file system picks
Listings(dir) ==
    {l \in [1 .. Cardinality(DOMAIN dir) -> DOMAIN dir] :
        \A i, j \in DOMAIN l : l[i] = l[j] => i = j}

\* parts = filename.rsplit('_chunk_', 1); speaker = parts[0]
speaker_of(name) == name[1]

\* chunk_num = int(parts[1])
chunk_num_of(name) == name[3]

\* a sort that leaves the chunks of a speaker in the order of the listing
chunk_stays_before_always(a, x) == TRUE

\* sort(key=lambda x: x[0]): an entry stays in front of a later entry with
\* a chunk number that is not smaller
chunk_stays_before(a, x) == a[1] <= x[1]

\* one step of chunks.sort(key=lambda x: x[0])
RECURSIVE sort_chunks(_, _)
sort_chunks(seq, x) ==
    IF seq = <<>> THEN <<x>>
    ELSE IF chunk_stays_before(Head(seq), x)
         THEN <<Head(seq)>> \o sort_chunks(Tail(seq), x)
         ELSE <<x>> \o seq

RECURSIVE sorted_chunks(_)
sorted_chunks(seq) ==
    IF seq = <<>> THEN <<>>
    ELSE sort_chunks(sorted_chunks(SubSeq(seq, 1, Len(seq) - 1)),
                     seq[Len(seq)])

\* chunks_by_speaker after the grouping loop and the sort of every list:
\* speaker -> [(chunk_num, json_file), ...]
chunks_by_speaker(listing) ==
    [sp \in {speaker_of(listing[k]) : k \in DOMAIN listing} |->
        LET own(name) == speaker_of(name) = sp
            files == SelectSeq(listing, own)
        IN sorted_chunks([k \in DOMAIN files |->
                            <<chunk_num_of(files[k]), files[k]>>])]

\* sorted(chunks_by_speaker.keys())
sorted_keys(cbs) ==
    LET is_key(sp) == sp \in DOMAIN cbs
    IN SelectSeq(label_order, is_key)

\* max(len(chunks) for chunks in chunks_by_speaker.values()), 0 when empty
max_chunks(cbs) ==
    IF DOMAIN cbs = {} THEN 0
    ELSE CHOOSE n \in {Len(cbs[sp]) : sp \in DOMAIN cbs} :
            \A sp \in DOMAIN cbs : Len(cbs[sp]) <= n

\* the files one pass of the inner loop opens: for speaker in order:
\* if chunk_idx < len(chunks_by_speaker[speaker])
files_at(cbs, order, chunk_idx) ==
    LET has(sp) == chunk_idx < Len(cbs[sp])
        present == SelectSeq(order, has)
    IN [k \in DOMAIN present |-> cbs[present[k]][chunk_idx + 1][2]]

\* for chunk_idx in range(n): the files in the order they are opened
RECURSIVE files_scanned(_, _, _)
files_scanned(cbs, order, n) ==
    IF n = 0 THEN <<>>
    ELSE files_scanned(cbs, order, n - 1) \o files_at(cbs, order, n - 1)

\* a scan that leaves the times of the words as they are in the file
word_info_without_offset(word, data, label, offset) ==
    [word |-> DictGet(word, "word", <<>>),
     start |-> DictGet(word, "start", 0),
     end |-> DictGet(word, "end", 0),
     speaker |-> DictGet(data, "speaker", label)]

\* the word dict appended to all_words
word_info(word, data, label, offset) ==
    [word |-> DictGet(word, "word", <<>>),
     start |-> DictGet(word, "start", 0) + offset,
     end |-> DictGet(word, "end", 0) + offset,
     speaker |-> DictGet(data, "speaker", label)]

\* for segment in data.get('segments', []): for word in
\* segment.get('words', []): the words of a file in the order of the loops
RECURSIVE words_of(_)
words_of(segments) ==
    IF segments = <<>> THEN <<>>
    ELSE DictGet(Head(segments), "words", <<>>) \o words_of(Tail(segments))

\* an offset that moves by the end of the last word of the file
time_added_by_last_word(data) ==
    LET words == words_of(DictGet(data, "segments", <<>>))
    IN IF words # <<>> THEN DictGet(words[Len(words)], "end", 0) ELSE 0

\* if segments: cumulative_time += segments[-1].get('end', 0)
time_added(data) ==
    LET segments == DictGet(data, "segments", <<>>)
    IN IF segments # <<>>
       THEN DictGet(segments[Len(segments)], "end", 0)
       ELSE 0

\* the body of the inner loop for one file
scan_file(st, name, data) ==
    LET words == words_of(DictGet(data, "segments", <<>>))
    IN [all_words |-> st.all_words \o
            [k \in DOMAIN words |->
                word_info(words[k], data, speaker_of(name),
                          st.cumulative_time)],
        cumulative_time |-> st.cumulative_time + time_added(data)]

\* all_words = []; cumulative_time = 0.0; then the first n files of the scan
RECURSIVE scan(_, _, _)
scan(dir, files, n) ==
    IF n = 0 THEN [all_words |-> <<>>, cumulative_time |-> 0]
    ELSE scan_file(scan(dir, files, n - 1), files[n], dir[files[n]])

\* a sort that puts a word in front of the words with the same start
stays_before_if_earlier(a, x) == a["start"] < x["start"]

\* list.sort is stable: a word that was appended earlier stays in front of
\* a later word with the same start
stays_before(a, x) == a["start"] <= x["start"]

\* one step of all_words.sort(key=lambda x: x.get('start', 0))
RECURSIVE sort_words(_, _)
sort_words(seq, x) ==
    IF seq = <<>> THEN <<x>>
    ELSE IF stays_before(Head(seq), x)
         THEN <<Head(seq)>> \o sort_words(Tail(seq), x)
         ELSE <<x>> \o seq

RECURSIVE sorted_words(_)
sorted_words(seq) ==
    IF seq = <<>> THEN <<>>
    ELSE sort_words(sorted_words(SubSeq(seq, 1, Len(seq) - 1)),
                    seq[Len(seq)])

\* the timeline of a directory listed in a given order, the speakers being
\* visited in `order`
timeline(dir, listing, order) ==
    LET cbs == chunks_by_speaker(listing)
        files == files_scanned(cbs, order, max_chunks(cbs))
    IN scan(dir, files, Len(files))

\* lines 346-394: grouping, scan and sort; without words the function
\* returns None
build_timeline ==
    /\ pc = "postprocess"
    /\ \E listing \in Listings(results_dir) :
        LET st == timeline(results_dir, listing,
                           sorted_keys(chunks_by_speaker(listing)))
        IN /\ cumulative_time' = st.cumulative_time
           /\ all_words' = sorted_words(st.all_words)
           /\ pc' = IF st.all_words = <<>> THEN "no_words" ELSE "segment"
    /\ UNCHANGED <<num_workers, speaker, chunk_paths, chunk_iterator,
                   futures, done, future, executor, track_jobs, cur_id,
                   results_dir, pbar, slept, request, submitted, writes,
                   final_transcript, output_file>>
    /\ UNCHANGED worker_vars
    /\ UNCHANGED other_vars

\* a test that looks at the pause only
phrase_break_on_pause_only(w, current_speaker, last_word_end) ==
    LET pause_duration == w["start"] - last_word_end
    IN pause_duration >= PHRASE_BREAK_THRESHOLD /\ last_word_end > 0

\* if word_info['speaker'] != current_speaker or (pause_duration >=
\* PHRASE_BREAK_THRESHOLD and last_word_end > 0)
phrase_break(w, current_speaker, last_word_end) ==
    LET pause_duration == w["start"] - last_word_end
    IN \/ w["speaker"] # current_speaker
       \/ (pause_duration >= PHRASE_BREAK_THRESHOLD /\ last_word_end > 0)

\* a phrase that grows by the blank only
joined_without_word(current_phrase, word) == current_phrase \o <<" ">>

\* current_phrase += " " + word_info.get('word', '')
joined(current_phrase, word) == current_phrase \o <<" ">> \o word

\* final_transcript.append({"speaker": ..., "text": current_phrase.strip()})
phrase(current_speaker, current_phrase) ==
    [speaker |-> current_speaker, text |-> strip(current_phrase)]

\* the state before the loop over all_words; words_of_phrases, open_words
\* and breaks are history: the positions in all_words of the words of
\* every appended phrase and of the open phrase, and the positions at
\* which the if branch was taken
before_loop(words) ==
    [final_transcript |-> <<>>,
     current_speaker |-> words[1]["speaker"],
     current_phrase |-> <<>>,
     last_word_end |-> 0,
     words_of_phrases |-> <<>>,
     open_words |-> <<>>,
     breaks |-> {}]

\* if current_phrase: final_transcript.append(...)
flushed(s) ==
    IF s.current_phrase # <<>>
    THEN [s EXCEPT !.final_transcript =
                       Append(@, phrase(s.current_speaker, s.current_phrase)),
                   !.words_of_phrases = Append(@, s.open_words)]
    ELSE s

\* the body of for word_info in all_words, for the word at position i
loop_body(s, i, w) ==
    IF phrase_break(w, s.current_speaker, s.last_word_end)
    THEN [flushed(s) EXCEPT !.current_speaker = w["speaker"],
                            !.current_phrase = DictGet(w, "word", <<>>),
                            !.last_word_end = DictGet(w, "end", 0),
                            !.open_words = <<i>>,
                            !.breaks = @ \cup {i}]
    ELSE [s EXCEPT !.current_phrase = joined(@, DictGet(w, "word", <<>>)),
                   !.last_word_end = DictGet(w, "end", 0),
                   !.open_words = Append(@, i)]

\* the loop after its first n passes
RECURSIVE loop(_, _)
loop(words, n) ==
    IF n = 0 THEN before_loop(words)
    ELSE loop_body(loop(words, n - 1), n, words[n])

\* lines 396-421: the loop and the last phrase
segmented(words) == flushed(loop(words, Len(words)))

segment_phrases ==
    /\ pc = "segment"
    /\ final_transcript' = segmented(all_words).final_transcript
    /\ pc' = "finished"
    /\ UNCHANGED <<num_workers, speaker, chunk_paths, chunk_iterator,
                   futures, done, future, executor, track_jobs, cur_id,
                   results_dir, pbar, slept, request, submitted, writes,
                   all_words, cumulative_time, output_file>>
    /\ UNCHANGED worker_vars
    /\ UNCHANGED other_vars

\* a main that takes every returned value for a transcript
has_transcript_always(returned) == TRUE

\* if final_transcript: None and the empty list are both false
has_transcript(returned) == returned # <<>>

\* main, lines 331-340: the value postprocess_results returned is written
\* to {results_dir.name}_diarized.json, or "No transcript generated." is
\* printed
save_transcript ==
    /\ pc \in {"no_words", "finished"}
    /\ LET returned == IF pc = "no_words" THEN None ELSE final_transcript
       IN IF has_transcript(returned)
          THEN /\ output_file' = <<returned>>
               /\ pc' = "transcript_saved"
          ELSE /\ pc' = "no_transcript"
               /\ UNCHANGED output_file
    /\ UNCHANGED <<num_workers, speaker, chunk_paths, chunk_iterator,
                   futures, done, future, executor, track_jobs, cur_id,
                   results_dir, pbar, slept, request, submitted, writes,
                   all_words, cumulative_time, final_transcript>>
    /\ UNCHANGED worker_vars
    /\ UNCHANGED other_vars

\* ------------------------------------------- aggregation of a directory
\* the rest of the program when main calls postprocess_results
DispatchDone ==
    /\ num_workers = 1
    /\ speaker = "track_1"
    /\ chunk_paths = 0
    /\ chunk_iterator = 0
    /\ futures = {}
    /\ done = {}
    /\ future = -1
    /\ executor = EmptyDict
    /\ track_jobs = EmptyDict
    /\ cur_id = 0
    /\ pbar = 0
    /\ slept = 0
    /\ task_queue = [w \in Workers |-> <<>>]
    /\ results_store = [w \in Workers |-> EmptyDict]
    /\ processing = [w \in Workers |-> None]
    /\ request = None
    /\ submitted = <<>>
    /\ writes = EmptyDict

Times == 0 .. MaxTime

\* the words of a result file: the text as whisper gives it, with its
\* leading blank; a word does not end before it starts
FileWords ==
    {w \in [word : {<<" ", "hi">>}, start : Times, end : Times] :
        w["start"] <= w["end"]}

\* a segment holds its end and at most one word
Segments ==
    [end : Times, words : {<<>>} \cup {<<w>> : w \in FileWords}]

\* a segment that holds two words
LongSegments == [end : Times, words : [{1, 2} -> FileWords]]

\* the result files of two tracks
FileNames ==
    {result_filename(label_order[k], i) : k \in DOMAIN label_order,
                                          i \in {0, 1}}

\* the content save gives a file
FileData(name, segments) ==
    [speaker |-> speaker_of(name), segments |-> segments]

\* a segment of one word that starts within the segment
WordSegments ==
    {s \in Segments : s["words"] # <<>>
                      /\ s["words"][1]["start"] <= s["end"]}

\* a segment that opens with a word without length
PointSegments ==
    {s \in WordSegments : /\ s["words"][1]["start"] = 0
                          /\ s["words"][1]["end"] = 0}

\* two chunks of the first track and, between them in the scan, a chunk
\* of the second track, every file with one segment of one word
Interleaved ==
    {(result_filename(label_order[1], 0) :>
            FileData(result_filename(label_order[1], 0), <<a>>))
     @@ (result_filename(label_order[2], 0) :>
            FileData(result_filename(label_order[2], 0), <<b>>))
     @@ (result_filename(label_order[1], 1) :>
            FileData(result_filename(label_order[1], 1), <<c>>)) :
        a \in WordSegments, b \in PointSegments, c \in WordSegments}

\* directories of at most two result files with at most one segment each,
\* directories of one file with two segments or with a segment of two
\* words, and the directories of three interleaved files
Directories ==
    {EmptyDict}
    \cup {(n :> FileData(n, segs)) :
            n \in FileNames,
            segs \in {<<>>} \cup {<<s>> : s \in Segments \cup LongSegments}
                            \cup {<<s, t>> : s \in Segments, t \in Segments}}
    \cup {(n :> FileData(n, a)) @@ (m :> FileData(m, b)) :
            <<n, m>> \in {nm \in FileNames \X FileNames : nm[1] # nm[2]},
            <<a, b>> \in ({<<>>} \cup {<<s>> : s \in Segments})
                         \X ({<<>>} \cup {<<s>> : s \in Segments})}
    \cup Interleaved

AggInit ==
    /\ DispatchDone
    /\ pc = "postprocess"
    /\ results_dir \in Directories
    /\ all_words = <<>>
    /\ cumulative_time = 0
    /\ final_transcript = <<>>
    /\ output_file = None
    /\ ProxyIdle
    /\ LocalIdle

AggNext ==
    \/ build_timeline
    \/ segment_phrases
    \/ save_transcript

AggSpec == AggInit /\ [][AggNext]_vars

\* ------------------------------------------ segmentation of a timeline
Texts == {<<>>, <<"hi">>, <<"there">>, <<" ", "hi">>}

\* a word does not end before it starts
WordInfos ==
    {w \in [word : Texts, start : Times, end : Times,
            speaker : {label_order[k] : k \in DOMAIN label_order}] :
        w["start"] <= w["end"]}

\* the timelines the sort hands to the loop: not empty, in the order of
\* the start times
Timelines ==
    UNION {{ws \in [1 .. n -> WordInfos] :
                \A i \in 1 .. (n - 1) : ws[i]["start"] <= ws[i + 1]["start"]} :
           n \in 1 .. MaxSegWords}

SegInit ==
    /\ DispatchDone
    /\ pc = "segment"
    /\ results_dir = EmptyDict
    /\ all_words \in Timelines
    /\ cumulative_time = 0
    /\ final_transcript = <<>>
    /\ output_file = None
    /\ ProxyIdle
    /\ LocalIdle

SegNext == segment_phrases

SegSpec == SegInit /\ [][SegNext]_vars

\* ------------------------------------------------- claims on aggregation
\* build_timeline has run
TimelineBuilt == pc \in {"no_words", "segment", "finished"}

\* the files of results_dir in the order the scan opens them
Scanned ==
    LET listing == CHOOSE l \in Listings(results_dir) : TRUE
        cbs == chunks_by_speaker(listing)
    IN files_scanned(cbs, sorted_keys(cbs), max_chunks(cbs))

\* the time the first n files of the scan that belong to a speaker add
RECURSIVE time_of_speaker(_, _, _)
time_of_speaker(files, n, sp) ==
    IF n = 0 THEN 0
    ELSE time_of_speaker(files, n - 1, sp) +
         (IF speaker_of(files[n]) = sp
          THEN time_added(results_dir[files[n]])
          ELSE 0)

\* C11: every track has its own cumulative offset, which starts at 0: the
\* absolute start and end of a word are its times in the chunk plus the time
\* added by the earlier chunks of its own track; the chunks of another track
\* never change them.
C11_OffsetPerTrack ==
    TimelineBuilt =>
        \A k \in DOMAIN Scanned :
            LET name == Scanned[k]
                data == results_dir[name]
                words == words_of(DictGet(data, "segments", <<>>))
                own == time_of_speaker(Scanned, k - 1, speaker_of(name))
            IN \A j \in DOMAIN words :
                \E i \in DOMAIN all_words :
                    all_words[i] =
                        word_info(words[j], data, speaker_of(name), own)

\* cumulative_time after the first n files of the scan
offset_after(n) == scan(results_dir, Scanned, n).cumulative_time

\* the end time, in its chunk, of the last word of a file; 0 without words
last_word_end_of(data) ==
    LET words == words_of(DictGet(data, "segments", <<>>))
    IN IF words = <<>> THEN 0 ELSE words[Len(words)]["end"]

\* C12 as stated: scanning a completed chunk advances the cumulative offset
\* by exactly the end time, in the chunk, of the last word of the chunk, and
\* by nothing when the chunk has no words.
C12_AdvanceByLastWord ==
    TimelineBuilt =>
        /\ \A k \in DOMAIN Scanned :
            offset_after(k) - offset_after(k - 1) =
                last_word_end_of(results_dir[Scanned[k]])
        /\ cumulative_time = offset_after(Len(Scanned))

\* C12 amended: scanning a completed chunk advances the cumulative offset
\* by exactly the end of the last segment of the chunk, by nothing when the
\* chunk has no segments; the words of the chunk do not enter.
C12_AdvanceByLastSegment ==
    TimelineBuilt =>
        /\ \A k \in DOMAIN Scanned :
            LET segments == results_dir[Scanned[k]]["segments"]
            IN offset_after(k) - offset_after(k - 1) =
                IF Len(segments) = 0 THEN 0
                ELSE segments[Len(segments)]["end"]
        /\ cumulative_time = offset_after(Len(Scanned))

\* a file was scanned whose last segment, which has no words, ends later
\* than the word of its first segment
C12_Witness ==
    /\ TimelineBuilt
    /\ \E k \in DOMAIN Scanned :
        LET segments == results_dir[Scanned[k]]["segments"]
        IN /\ Len(segments) = 2
           /\ segments[1]["end"] = 1
           /\ segments[2]["end"] = 2
           /\ last_word_end_of(results_dir[Scanned[k]]) = 1
           /\ offset_after(k) - offset_after(k - 1) = 2
           /\ cumulative_time >= 2

\* the timeline and the phrases postprocess_results makes of results_dir
\* when glob lists the files in the order `listing`
all_words_of(listing) ==
    sorted_words(timeline(results_dir, listing,
                          sorted_keys(chunks_by_speaker(listing))).all_words)

\* C13: the phrase sequence is the same for every order in which the jobs
\* completed, that is for every order in which the result files were
\* written and are listed: the timeline and the phrases that were built are
\* those of every listing of the directory.
C13_CompletionOrder ==
    \A listing \in Listings(results_dir) :
        /\ TimelineBuilt => all_words = all_words_of(listing)
        /\ pc = "finished" =>
            final_transcript = segmented(all_words_of(listing)).final_transcript

\* the phrases of a track were built from two files with different words
\* and different ends, which glob may list in two orders
C13_Witness ==
    /\ pc = "finished"
    /\ DOMAIN results_dir =
        {result_filename("track_0", 0), result_filename("track_0", 1)}
    /\ Cardinality(Listings(results_dir)) = 2
    /\ Len(all_words) = 2
    /\ all_words[1]["end"] # all_words[2]["end"]
    /\ time_added(results_dir[result_filename("track_0", 0)]) = 2
    /\ time_added(results_dir[result_filename("track_0", 1)]) = 1
    /\ Len(final_transcript) = 2

\* the orders in which the inner loop could visit the speakers
VisitOrders(cbs) ==
    {o \in [1 .. Cardinality(DOMAIN cbs) -> DOMAIN cbs] :
        \A i, j \in DOMAIN o : o[i] = o[j] => i = j}

\* the sorted timeline when the speakers are visited in `order`
all_words_in(order) ==
    LET listing == CHOOSE l \in Listings(results_dir) : TRUE
    IN sorted_words(timeline(results_dir, listing, order).all_words)

\* C14: the output does not depend on the order in which the tracks are
\* visited within a chunk index: every order gives every word the absolute
\* times it has in the timeline that was built, and the phrases that were
\* built.
C14_VisitOrder ==
    \A order \in VisitOrders(chunks_by_speaker(
                    CHOOSE l \in Listings(results_dir) : TRUE)) :
        /\ TimelineBuilt =>
            {all_words_in(order)[i] : i \in DOMAIN all_words_in(order)} =
                {all_words[i] : i \in DOMAIN all_words}
        /\ pc = "finished" =>
            segmented(all_words_in(order)).final_transcript = final_transcript

\* all_words as the scan leaves it, before the sort
scanned_words ==
    LET listing == CHOOSE l \in Listings(results_dir) : TRUE
    IN timeline(results_dir, listing,
                sorted_keys(chunks_by_speaker(listing))).all_words

\* where the words of the scan come from, in the order of the scan: for
\* every word the chunk index of its file (the place of the file among the
\* files of its speaker), the rank of its speaker and its place in the file
origin_of(name, j) ==
    <<Cardinality({n \in DOMAIN results_dir :
            speaker_of(n) = speaker_of(name)
            /\ chunk_num_of(n) < chunk_num_of(name)}),
      CHOOSE k \in DOMAIN label_order : label_order[k] = speaker_of(name),
      j>>

RECURSIVE origins(_)
origins(n) ==
    IF n = 0 THEN <<>>
    ELSE LET name == Scanned[n]
             words == words_of(DictGet(results_dir[name], "segments", <<>>))
         IN origins(n - 1) \o [j \in DOMAIN words |-> origin_of(name, j)]

\* (chunk index, track, position) of a comes before that of b
comes_before(a, b) ==
    \/ a[1] < b[1]
    \/ a[1] = b[1] /\ a[2] < b[2]
    \/ a[1] = b[1] /\ a[2] = b[2] /\ a[3] < b[3]

\* C20: the timeline holds the scanned words ordered by absolute start
\* time, and words with equal start keep the order of the scan, which is by
\* chunk index, then by track, then by position in the chunk.
C20_StableOrder ==
    TimelineBuilt =>
        LET from == origins(Len(Scanned))
            n == Len(scanned_words)
        IN /\ Len(from) = n
           /\ \A i, j \in 1 .. n : i < j => comes_before(from[i], from[j])
           /\ Len(all_words) = n
           /\ \E p \in [1 .. n -> 1 .. n] :
                /\ \A i, j \in 1 .. n : p[i] = p[j] => i = j
                /\ \A i \in 1 .. n : all_words[i] = scanned_words[p[i]]
                /\ \A i, j \in 1 .. n : i < j =>
                    \/ all_words[i]["start"] < all_words[j]["start"]
                    \/ /\ all_words[i]["start"] = all_words[j]["start"]
                       /\ p[i] < p[j]

\* two words of one chunk and two words of two tracks that start at the
\* same time and differ: the timeline keeps them in the order of the scan
C20_Witness ==
    /\ TimelineBuilt
    /\ Len(all_words) = 2
    /\ all_words[1]["start"] = all_words[2]["start"]
    /\ all_words[1]["end"] > all_words[2]["end"]
    /\ all_words = scanned_words
    /\ \/ Len(Scanned) = 1
       \/ all_words[1]["speaker"] # all_words[2]["speaker"]

\* ------------------------------------------------ claims on segmentation
\* the gap in front of the word at position i of the timeline
gap(i) == all_words[i]["start"] - all_words[i - 1]["end"]

\* the positions of the timeline at which the loop started a new phrase
Breaks == segmented(all_words).breaks

\* the positions in the timeline of the words of every emitted phrase
WordsOfPhrases == segmented(all_words).words_of_phrases

\* C15: a word that is not the first and has the speaker of the word before
\* it starts a new phrase if and only if its start minus the end of the word
\* before it is at least the pause threshold, whatever that end is; the
\* first word starts no new phrase.
C15_PauseBreak ==
    pc = "finished" =>
        /\ 1 \notin Breaks
        /\ \A i \in 2 .. Len(all_words) :
            all_words[i]["speaker"] = all_words[i - 1]["speaker"] =>
                (i \in Breaks <=> gap(i) >= PHRASE_BREAK_THRESHOLD)

\* C16: a word whose speaker differs from the speaker of the word before it
\* starts a new phrase, whatever the gap; every emitted phrase holds words
\* of one speaker and carries the label of that speaker.
C16_SpeakerBreak ==
    pc = "finished" =>
        /\ \A i \in 2 .. Len(all_words) :
            all_words[i]["speaker"] # all_words[i - 1]["speaker"] =>
                i \in Breaks
        /\ Len(WordsOfPhrases) = Len(final_transcript)
        /\ \A k \in DOMAIN final_transcript :
            /\ WordsOfPhrases[k] # <<>>
            /\ \A a \in DOMAIN WordsOfPhrases[k] :
                all_words[WordsOfPhrases[k][a]]["speaker"] =
                    final_transcript[k]["speaker"]

\* the speaker changes at a word that starts before the word in front of it
\* has ended, and two phrases were emitted
C16_Witness ==
    /\ pc = "finished"
    /\ Len(all_words) = 2
    /\ all_words[1]["speaker"] = "track_1"
    /\ all_words[2]["speaker"] = "track_0"
    /\ gap(2) < 0
    /\ Len(final_transcript) = 2
    /\ final_transcript[1]["speaker"] = "track_1"
    /\ final_transcript[2]["speaker"] = "track_0"

\* C17: no phrase of the output has empty text, whatever the words are,
\* words with empty text included; the phrase that is open at the end of the
\* timeline is emitted.
C17_NoEmptyPhrase ==
    pc = "finished" =>
        /\ \A k \in DOMAIN final_transcript :
            final_transcript[k]["text"] # <<>>
        /\ LET s == loop(all_words, Len(all_words))
           IN s.current_phrase # <<>> =>
                /\ final_transcript # <<>>
                /\ final_transcript[Len(final_transcript)] =
                      [speaker |-> s.current_speaker,
                       text |-> strip(s.current_phrase)]

\* the positions of the words of all emitted phrases, in output order
RECURSIVE positions_emitted(_)
positions_emitted(phrases) ==
    IF phrases = <<>> THEN <<>>
    ELSE Head(phrases) \o positions_emitted(Tail(phrases))

\* " ".join of the texts of the words at the given positions
RECURSIVE joined_by_spaces(_)
joined_by_spaces(positions) ==
    IF positions = <<>> THEN <<>>
    ELSE IF Len(positions) = 1 THEN all_words[positions[1]]["word"]
    ELSE all_words[Head(positions)]["word"] \o <<" ">>
            \o joined_by_spaces(Tail(positions))

\* the timeline of one track without a gap that reaches the threshold
OneTrackNoPause ==
    /\ \A i \in DOMAIN all_words :
        all_words[i]["speaker"] = all_words[1]["speaker"]
    /\ \A i \in 2 .. Len(all_words) : gap(i) < PHRASE_BREAK_THRESHOLD

\* C19 as stated: the words of the emitted phrases, in output order, are
\* exactly the timeline; the text of a phrase is its words joined by single
\* spaces; one track without a gap that reaches the threshold gives exactly
\* one phrase with the label of the track.
C19_WordsKept ==
    pc = "finished" =>
        /\ positions_emitted(WordsOfPhrases) =
              [i \in 1 .. Len(all_words) |-> i]
        /\ Len(WordsOfPhrases) = Len(final_transcript)
        /\ \A k \in DOMAIN final_transcript :
            final_transcript[k]["text"] = joined_by_spaces(WordsOfPhrases[k])
        /\ OneTrackNoPause =>
            /\ Len(final_transcript) = 1
            /\ final_transcript[1]["speaker"] = all_words[1]["speaker"]

\* C19 amended: when no word of the timeline has empty text, the words of
\* the emitted phrases, in output order, are exactly the timeline; the
\* text of a phrase is its words joined by single spaces, less the blanks
\* at its two ends; one track without a gap that reaches the threshold
\* gives exactly one phrase with the label of the track.
C19_WordsWithTextKept ==
    pc = "finished" =>
        /\ (\A i \in DOMAIN all_words : all_words[i]["word"] # <<>>) =>
              positions_emitted(WordsOfPhrases) =
                  [i \in 1 .. Len(all_words) |-> i]
        /\ Len(WordsOfPhrases) = Len(final_transcript)
        /\ \A k \in DOMAIN final_transcript :
            final_transcript[k]["text"] =
                strip(joined_by_spaces(WordsOfPhrases[k]))
        /\ OneTrackNoPause =>
            /\ Len(final_transcript) = 1
            /\ final_transcript[1]["speaker"] = all_words[1]["speaker"]

\* the words hi and there of one track, 0 seconds apart, gave the one
\* phrase "hi there"
C19_Witness ==
    /\ pc = "finished"
    /\ Len(all_words) = 2
    /\ all_words[1]["word"] = <<"hi">>
    /\ all_words[2]["word"] = <<"there">>
    /\ all_words[1]["end"] = 1
    /\ gap(2) = 0
    /\ final_transcript =
        <<[speaker |-> "track_0", text |-> <<"hi", " ", "there">>]>>

NoWordsInFiles ==
    \A n \in DOMAIN results_dir :
        words_of(DictGet(results_dir[n], "segments", <<>>)) = <<>>

\* C21: when the results directory holds no track, no result file or no
\* word, post-processing returns no transcript, main ends on "No transcript
\* generated." and never writes the final transcript file.
C21_NoTranscript ==
    NoWordsInFiles =>
        /\ pc \in {"postprocess", "no_words", "no_transcript"}
        /\ final_transcript = <<>>
        /\ output_file = None

\* the run ended on "No transcript generated." for a directory with a
\* result file that holds a segment without words
C21_Witness ==
    /\ pc = "no_transcript"
    /\ NoWordsInFiles
    /\ \E n \in DOMAIN results_dir : results_dir[n]["segments"] # <<>>

\* ================================================================== proxy
\* proxy_server.py: every request is served by a handler thread that runs
\* proxy(worker_id, path) once; the handlers share _token_cache under _lock.
MaxTicks == 2

\* the handler threads: two requests are served
Handlers == {1, 2}

\* TARGET_URLS: the first two of the four backends
TARGET_URLS == <<"transcriber-gpu-worker", "transcriber-gpu-worker-2">>

\* API_KEY = "your-super-secret-api-key"
API_KEY == "your-super-secret-api-key"

\* TOKEN_TTL = 300
TOKEN_TTL == 300

\* the values time.time() takes: the clock is read every half TTL
Instants == {k * (TOKEN_TTL \div 2) : k \in 0 .. MaxTicks}

\* request.headers.get('X-API-Key'): absent, a wrong key or the key
ApiKeyHeaders == {None, <<"guess">>, <<API_KEY>>}

\* the requests the route '/<int:worker_id>/<path:path>' hands to proxy:
\* worker_id is an unsigned integer, here up to the first one past the list
Requests == [api_key : ApiKeyHeaders, worker_id : 0 .. Len(TARGET_URLS)]

\* what a backend answers: the responses of the handlers of worker/main.py
\* (200, 404 for an unknown id) and the server's plain answer to an
\* unhandled error
BackendResponses ==
    {[status_code |-> 200, content_type |-> "application/json"],
     [status_code |-> 404, content_type |-> "application/json"],
     [status_code |-> 500, content_type |-> "text/plain; charset=utf-8"]}

\* proxy returns: the locals of the call are gone, the request and what
\* was sent and answered are kept as history
returned(handler, answer) ==
    [handler EXCEPT !["pc"] = "done", !["target_url"] = None,
                    !["tok"] = None, !["gcp_token"] = None,
                    !["response"] = answer]

\* a handler thread that has not been given its request
new_handler ==
    [pc |-> "idle", request |-> None, target_url |-> None, tok |-> None,
     gcp_token |-> None, forwarded |-> 0, backend |-> None,
     response |-> None]

\* the answer of the proxy itself: a text and a status
own_response(status) ==
    <<[status_code |-> status, content_type |-> "text/html; charset=utf-8"]>>

\* a proxy that asks for a key only when one is sent
unauthorized_if_present(req) ==
    req["api_key"] \notin {None, <<API_KEY>>}

\* if request.headers.get('X-API-Key') != API_KEY
unauthorized(req) == req["api_key"] # <<API_KEY>>

\* if not (0 <= worker_id < len(TARGET_URLS))
invalid_worker_id(worker_id) ==
    ~(0 <= worker_id /\ worker_id < Len(TARGET_URLS))

\* proxy, lines 48-55: the two checks, then target_url and the call of
\* get_gcp_token
proxy_enter(h) ==
    /\ h \in DOMAIN handlers
    /\ handlers[h]["pc"] = "idle"
    /\ \E req \in Requests :
        handlers' = [handlers EXCEPT ![h] =
            IF unauthorized(req)
            THEN returned([@ EXCEPT !["request"] = <<req>>],
                          own_response(401))
            ELSE IF invalid_worker_id(req["worker_id"])
            THEN returned([@ EXCEPT !["request"] = <<req>>],
                          own_response(400))
            ELSE [@ EXCEPT !["pc"] = "get_gcp_token",
                           !["request"] = <<req>>,
                           !["target_url"] =
                               <<TARGET_URLS[req["worker_id"] + 1]>>]]
    /\ UNCHANGED <<token_cache, lock, clock, fetches>>
    /\ UNCHANGED proxy_frame

\* a lock that is handed to every thread that asks
lock_free_always(l) == TRUE

\* threading.Lock: acquire blocks while another thread holds the lock
lock_free(l) == l = None

\* with _lock: on the way to the read of line 32 or to the write of line 40
lock_acquire(h) ==
    /\ h \in DOMAIN handlers
    /\ handlers[h]["pc"] \in {"get_gcp_token", "store"}
    /\ lock_free(lock)
    /\ lock' = <<h>>
    /\ handlers' = [handlers EXCEPT ![h]["pc"] =
            IF @ = "get_gcp_token" THEN "read" ELSE "write"]
    /\ UNCHANGED <<token_cache, clock, fetches>>
    /\ UNCHANGED proxy_frame

\* _token_cache is keyed by target_url
cache_key(target_url) == target_url

\* a test that takes an entry until its expiry is over
unexpired_or_due(hit, now) == hit["exp"] >= now

\* hit["exp"] > time.time()
unexpired(hit, now) == hit["exp"] > now

\* hit = _token_cache.get(target_url); if hit and hit["exp"] > time.time()
cache_hit(cache, target_url, now) ==
    /\ cache_key(target_url) \in DOMAIN cache
    /\ unexpired(cache[cache_key(target_url)], now)

\* lines 32-35: return hit["tok"] when the entry is fresh, else go on to
\* the fetch; the lock is released on both ways
read_cache(h) ==
    /\ h \in DOMAIN handlers
    /\ handlers[h]["pc"] = "read"
    /\ LET target_url == handlers[h]["target_url"][1]
       IN handlers' = [handlers EXCEPT ![h] =
            IF cache_hit(token_cache, target_url, clock)
            THEN [@ EXCEPT !["pc"] = "forward",
                           !["gcp_token"] =
                               <<token_cache[cache_key(target_url)]["tok"]>>]
            ELSE [@ EXCEPT !["pc"] = "fetch"]]
    /\ lock' = None
    /\ UNCHANGED <<token_cache, clock, fetches>>
    /\ UNCHANGED proxy_frame

\* tok = fetch_id_token(auth_req, target_url): a new token, known by its
\* place in the history, issued for target_url at the time of the call;
\* `stored` is history: the time at which the token was written to the
\* cache and the number of that write among all writes
fetch_id_token(h) ==
    /\ h \in DOMAIN handlers
    /\ handlers[h]["pc"] = "fetch"
    /\ fetches' = Append(fetches,
            [audience |-> handlers[h]["target_url"][1], at |-> clock,
             stored |-> None])
    /\ handlers' = [handlers EXCEPT ![h]["pc"] = "store",
                                    ![h]["tok"] = <<Len(fetches) + 1>>]
    /\ UNCHANGED <<token_cache, lock, clock>>
    /\ UNCHANGED proxy_frame

\* except Exception: return None; proxy answers 500
fetch_fails(h) ==
    /\ h \in DOMAIN handlers
    /\ handlers[h]["pc"] = "fetch"
    /\ handlers' = [handlers EXCEPT ![h] = returned(@, own_response(500))]
    /\ UNCHANGED <<token_cache, lock, clock, fetches>>
    /\ UNCHANGED proxy_frame

\* {"tok": tok, "exp": time.time() + TOKEN_TTL}
new_entry(tok, now) == [tok |-> tok, exp |-> now + TOKEN_TTL]

\* lines 39-41: the entry is written under the lock and tok is returned
write_cache(h) ==
    /\ h \in DOMAIN handlers
    /\ handlers[h]["pc"] = "write"
    /\ token_cache' = DictSet(token_cache,
                              cache_key(handlers[h]["target_url"][1]),
                              new_entry(handlers[h]["tok"][1], clock))
    /\ lock' = None
    /\ handlers' = [handlers EXCEPT ![h]["pc"] = "forward",
                                    ![h]["gcp_token"] = handlers[h]["tok"]]
    /\ LET writes_made ==
              Cardinality({n \in DOMAIN fetches : fetches[n]["stored"] # None})
       IN fetches' = [fetches EXCEPT ![handlers[h]["tok"][1]]["stored"] =
                        <<[seq |-> writes_made + 1, at |-> clock]>>]
    /\ UNCHANGED clock
    /\ UNCHANGED proxy_frame

\* a proxy that answers 200 whatever the backend answered
passed_as_ok(resp) ==
    <<[status_code |-> 200, content_type |-> resp["content_type"]]>>

\* Response(..., status=resp.status_code,
\*          content_type=resp.headers['Content-Type'])
passed_through(resp) ==
    <<[status_code |-> resp["status_code"],
       content_type |-> resp["content_type"]]>>

\* lines 64-73: the request is sent to the backend and the backend answers
forward_response(h) ==
    /\ h \in DOMAIN handlers
    /\ handlers[h]["pc"] = "forward"
    /\ \E resp \in BackendResponses :
        handlers' = [handlers EXCEPT ![h] =
            returned([@ EXCEPT !["forwarded"] = @ + 1,
                               !["backend"] = <<resp>>],
                     passed_through(resp))]
    /\ UNCHANGED <<token_cache, lock, clock, fetches>>
    /\ UNCHANGED proxy_frame

\* lines 74-75: sess.request raised (no connection, timeout)
forward_fails(h) ==
    /\ h \in DOMAIN handlers
    /\ handlers[h]["pc"] = "forward"
    /\ handlers' = [handlers EXCEPT ![h] =
            returned([@ EXCEPT !["forwarded"] = @ + 1], own_response(502))]
    /\ UNCHANGED <<token_cache, lock, clock, fetches>>
    /\ UNCHANGED proxy_frame

\* time passes
tick ==
    /\ \E later \in Instants :
        /\ later > clock
        /\ clock' = later
    /\ UNCHANGED <<token_cache, lock, handlers, fetches>>
    /\ UNCHANGED proxy_frame

ProxyInit ==
    /\ DispatchDone
    /\ pc = "proxy"
    /\ results_dir = EmptyDict
    /\ all_words = <<>>
    /\ cumulative_time = 0
    /\ final_transcript = <<>>
    /\ output_file = None
    /\ LocalIdle
    /\ token_cache = EmptyDict
    /\ lock = None
    /\ clock = 0
    /\ handlers = [h \in Handlers |-> new_handler]
    /\ fetches = <<>>

ProxyNext ==
    \/ \E h \in Handlers : proxy_enter(h)
    \/ \E h \in Handlers : lock_acquire(h)
    \/ \E h \in Handlers : read_cache(h)
    \/ \E h \in Handlers : fetch_id_token(h)
    \/ \E h \in Handlers : fetch_fails(h)
    \/ \E h \in Handlers : write_cache(h)
    \/ \E h \in Handlers : forward_response(h)
    \/ \E h \in Handlers : forward_fails(h)
    \/ tick

ProxySpec == ProxyInit /\ [][ProxyNext]_vars

\* ------------------------------------------------------ claims on the proxy
\* the request of a handler does not carry the shared secret
WrongKey(handler) ==
    /\ handler["request"] # None
    /\ handler["request"][1]["api_key"] # <<API_KEY>>

\* the request of a handler carries the secret and names no backend
WrongIndex(handler) ==
    /\ handler["request"] # None
    /\ handler["request"][1]["api_key"] = <<API_KEY>>
    /\ handler["request"][1]["worker_id"] \notin 0 .. (Len(TARGET_URLS) - 1)

\* the status of the answer a handler has given
Answered(handler, status) ==
    /\ handler["pc"] = "done"
    /\ handler["response"] # None
    /\ handler["response"][1]["status_code"] = status

\* C22: a request without the right X-API-Key is answered 401 and a request
\* with the key whose worker index is outside TARGET_URLS is answered 400;
\* the handler gives the answer in its first step, which leaves the token
\* cache and the history of fetches as they are, and it has sent nothing to
\* a backend, then or later.
C22_RejectedBeforeBackend ==
    [][\A h \in Handlers :
        LET before == handlers[h]
            after == handlers'[h]
        IN (WrongKey(after) \/ WrongIndex(after)) =>
            /\ before["pc"] \in {"idle", "done"}
            /\ Answered(after, IF WrongKey(after) THEN 401 ELSE 400)
            /\ after["forwarded"] = 0
            /\ before["pc"] = "idle" =>
                   UNCHANGED <<token_cache, fetches, lock>>]_vars

\* a request with the key and the index past the list was answered 400
\* while the cache held a token
C22_Witness ==
    /\ token_cache # EmptyDict
    /\ \E h \in Handlers :
        /\ WrongIndex(handlers[h])
        /\ Answered(handlers[h], 400)

\* the call of a handler to its backend raised
BackendCallFailed(handler) ==
    /\ handler["pc"] = "done"
    /\ handler["forwarded"] > 0
    /\ handler["backend"] = None

TargetOf(handler) == handler["target_url"][1]

\* the cache holds an entry for the backend whose expiry lies ahead
Fresh(target_url) ==
    /\ target_url \in DOMAIN token_cache
    /\ token_cache[target_url]["exp"] > clock

\* C24: get_gcp_token returns the cached token of its backend without a
\* fetch when the entry of the backend is unexpired at the read; otherwise
\* it fetches one token for the backend, stores it under the backend with
\* expiry = time of the store + TOKEN_TTL and returns it; the token it
\* returns was issued for its backend; a failed fetch returns no token (the
\* proxy answers 500 and sends nothing) and leaves the cache as it is.
C24_TokenCache ==
    [][\A h \in Handlers :
        LET before == handlers[h]
            after == handlers'[h]
        IN /\ (before["pc"] = "read" /\ after["pc"] # "read") =>
                IF Fresh(TargetOf(before))
                THEN /\ after["pc"] = "forward"
                     /\ after["gcp_token"]
                            = <<token_cache[TargetOf(before)]["tok"]>>
                     /\ UNCHANGED <<fetches, token_cache>>
                ELSE after["pc"] = "fetch"
           /\ (before["pc"] = "fetch" /\ after["pc"] = "store") =>
                /\ Len(fetches') = Len(fetches) + 1
                /\ after["tok"] = <<Len(fetches')>>
                /\ fetches'[Len(fetches')]["audience"] = TargetOf(before)
                /\ UNCHANGED token_cache
           /\ (before["pc"] = "write" /\ after["pc"] # "write") =>
                /\ after["pc"] = "forward"
                /\ after["gcp_token"] = before["tok"]
                /\ token_cache' = DictSet(token_cache, TargetOf(before),
                        [tok |-> before["tok"][1],
                         exp |-> clock + TOKEN_TTL])
           /\ (before["pc"] = "fetch" /\ after["pc"] = "done") =>
                /\ Answered(after, 500)
                /\ after["forwarded"] = 0
                /\ UNCHANGED <<fetches, token_cache>>
           /\ after["pc"] = "forward" =>
                /\ after["gcp_token"] # None
                /\ fetches'[after["gcp_token"][1]]["audience"]
                       = TargetOf(after)
           /\ before["pc"] = "fetch" \/ after["pc"] # "fetch"
                  \/ before["pc"] = "read"]_vars

\* after a tick a handler was given the unexpired token another handler
\* had fetched
C24_Witness ==
    /\ clock > 0
    /\ \E h \in Handlers :
        /\ handlers[h]["pc"] = "forward"
        /\ handlers[h]["tok"] = None
        /\ handlers[h]["gcp_token"] # None
        /\ fetches[handlers[h]["gcp_token"][1]]["at"] < clock

\* the handlers inside a `with _lock:` block
InCriticalSection == {h \in Handlers : handlers[h]["pc"] \in {"read", "write"}}

\* reads and writes of the cache exclude one another
MutualExclusion ==
    /\ Cardinality(InCriticalSection) <= 1
    /\ \A h \in InCriticalSection : lock = <<h>>

\* every token a call of get_gcp_token returned was issued for its backend
ReturnedForBackend ==
    \A h \in Handlers :
        handlers[h]["pc"] = "forward" =>
            /\ handlers[h]["gcp_token"] # None
            /\ fetches[handlers[h]["gcp_token"][1]]["audience"]
                   = TargetOf(handlers[h])

\* no call of get_gcp_token is under way
AllCallsFinished ==
    \A h \in Handlers : handlers[h]["pc"] \in {"idle", "forward", "done"}

\* the tokens fetched for a backend
FetchedFor(target_url) ==
    {n \in DOMAIN fetches : fetches[n]["audience"] = target_url}

\* the token of the last fetch for a backend
LastFetched(target_url) ==
    CHOOSE n \in FetchedFor(target_url) :
        \A m \in FetchedFor(target_url) : m <= n

\* the token of the last write to the entry of a backend
LastStored(target_url) ==
    CHOOSE n \in FetchedFor(target_url) :
        /\ fetches[n]["stored"] # None
        /\ \A m \in FetchedFor(target_url) :
              fetches[m]["stored"] # None =>
                  fetches[m]["stored"][1]["seq"] <= fetches[n]["stored"][1]["seq"]

\* C25 as stated: reads and writes of the cache are mutually exclusive, a
\* caller returns a token fetched for its backend, and once all calls have
\* finished every entry holds the token fetched last for its backend, with
\* an expiry no later than the fetch time of that token + TOKEN_TTL.
C25_LastFetchWins ==
    /\ MutualExclusion
    /\ ReturnedForBackend
    /\ AllCallsFinished =>
        \A u \in DOMAIN token_cache :
            /\ token_cache[u]["tok"] = LastFetched(u)
            /\ token_cache[u]["exp"]
                   <= fetches[LastFetched(u)]["at"] + TOKEN_TTL

\* C25 amended: reads and writes of the cache are mutually exclusive, a
\* caller returns a token fetched for its backend, and once all calls have
\* finished every entry holds the token stored last for its backend, one
\* fetched for that backend, with expiry = the time of that store +
\* TOKEN_TTL, which is no earlier than the fetch time of the token +
\* TOKEN_TTL.
C25_LastStoreWins ==
    /\ MutualExclusion
    /\ ReturnedForBackend
    /\ AllCallsFinished =>
        \A u \in DOMAIN token_cache :
            /\ token_cache[u]["tok"] = LastStored(u)
            /\ token_cache[u]["exp"]
                   = fetches[LastStored(u)]["stored"][1]["at"] + TOKEN_TTL
            /\ token_cache[u]["exp"]
                   >= fetches[LastStored(u)]["at"] + TOKEN_TTL

\* two calls fetched a token for the same backend, the call that fetched
\* first stored last, after a tick, and both calls have finished
C25_Witness ==
    /\ AllCallsFinished
    /\ \E u \in DOMAIN token_cache :
        /\ Cardinality(FetchedFor(u)) = 2
        /\ token_cache[u]["tok"] # LastFetched(u)
        /\ token_cache[u]["exp"]
               > fetches[token_cache[u]["tok"]]["at"] + TOKEN_TTL

\* ------------------------------------------------- claims on the job dict
\* the fields upload_chunk gives a job_info besides its status
DispatchFields == {"chunk_id", "path", "order", "worker_id"}

\* a job of track_jobs holds what its upload returned
AsDispatched(id) ==
    LET job == track_jobs[id]
    IN /\ DispatchFields \subseteq DOMAIN job
       /\ job["order"] \in DOMAIN executor
       /\ executor[job["order"]].result # None
       /\ \A k \in DispatchFields :
              job[k] = executor[job["order"]].result[1][k]
       /\ job["chunk_id"] = id

\* every job holds what its upload returned, and every result file bears
\* the order of a completed job whose chunk was submitted under that order
JobsAsDispatched ==
    /\ \A id \in DOMAIN track_jobs : AsDispatched(id)
    /\ \A name \in DOMAIN results_dir :
          \E id \in DOMAIN track_jobs :
             /\ track_jobs[id]["status"] = "completed"
             /\ name = result_filename(speaker, track_jobs[id]["order"])
             /\ Submitted(track_jobs[id]["order"])
             /\ executor[track_jobs[id]["order"]].chunk_id = id

\* C26: no step changes the chunk_id, path, order or worker_id of a job of
\* track_jobs: a poll response adds to or replaces the other fields only;
\* every job holds the values its upload returned, and every result file
\* bears the order under which the chunk of a completed job was submitted.
C26_PollFrame ==
    [][/\ \A id \in DOMAIN track_jobs :
             /\ id \in DOMAIN track_jobs'
             /\ DispatchFields \subseteq DOMAIN track_jobs'[id]
             /\ \A k \in DispatchFields :
                    track_jobs'[id][k] = track_jobs[id][k]
       /\ JobsAsDispatched']_vars

\* the job of the second chunk took the completed result from a poll
\* response and its file was written
C26_Witness ==
    \E id \in DOMAIN track_jobs :
        /\ track_jobs[id]["order"] = 1
        /\ track_jobs[id]["status"] = "completed"
        /\ "text" \in DOMAIN track_jobs[id]
        /\ result_filename(speaker, 1) \in DOMAIN results_dir

\* ------------------------------------------------------ claims on the worker
\* the chunk ids that wait in the queue of a worker
QueuedIds(w) == {task_queue[w][k].chunk_id : k \in DOMAIN task_queue[w]}

\* the chunk ids of a worker's store whose result is completed or error
TerminalIds(w) ==
    {id \in DOMAIN results_store[w] :
        results_store[w][id]["status"] \in {"completed", "error"}}

\* C28: a worker takes its tasks one at a time from the head of its queue,
\* to which enqueue_chunk appends: a task is taken only when none is being
\* transcribed and every task enqueued before it has a completed or error
\* result; the task being transcribed is replaced by no other; a result is
\* stored for the task being transcribed only, and after an error as after a
\* success the processor is free and the waiting tasks are still queued.
C28_OneByOneInOrder ==
    [][\A w \in Workers :
        /\ (processing[w] = None /\ processing'[w] # None) =>
              /\ task_queue[w] # <<>>
              /\ processing'[w] = <<Head(task_queue[w])>>
              /\ task_queue'[w] = Tail(task_queue[w])
              /\ \A id \in DOMAIN results_store[w] :
                    id \in TerminalIds(w) \/ id \in QueuedIds(w)
        /\ (processing[w] # None /\ processing'[w] # None) =>
              processing'[w] = processing[w]
        /\ (task_queue'[w] # task_queue[w] /\ processing'[w] = processing[w])
              => /\ Len(task_queue'[w]) = Len(task_queue[w]) + 1
                 /\ SubSeq(task_queue'[w], 1, Len(task_queue[w]))
                        = task_queue[w]
        /\ \A id \in DOMAIN results_store'[w] :
              (id \in TerminalIds(w)' /\ id \notin TerminalIds(w)) =>
                  /\ processing[w] # None
                  /\ processing[w][1].chunk_id = id
                  /\ processing'[w] = None
                  /\ task_queue'[w] = task_queue[w]]_vars

\* after the transcription of a task failed the same worker transcribes
\* another task
C28_Witness ==
    \E w \in Workers :
        /\ processing[w] # None
        /\ \E id \in DOMAIN results_store[w] :
              results_store[w][id]["status"] = "error"

\* get_result finds every chunk id a worker has answered an upload with
AcceptedPresent ==
    \A i \in DOMAIN executor :
        executor[i].chunk_id # 0 =>
            get_result(executor[i].worker_id,
                       executor[i].chunk_id).status_code = 200

\* C29: an id of a worker's store stays in the store; its status is queued
\* until the processor stores completed or error, and from then on
\* get_result gives that same result for the id, never queued again; the id
\* of every accepted upload is in the store of its worker.
C29_StoreOnlyForward ==
    [][/\ \A w \in Workers :
            \A id \in DOMAIN results_store[w] :
                /\ get_result(w, id)'.status_code = 200
                /\ IF id \in TerminalIds(w)
                   THEN get_result(w, id)'.json = results_store[w][id]
                   ELSE /\ results_store[w][id]["status"] = "queued"
                        /\ get_result(w, id)'.json["status"]
                               \in {"queued", "completed", "error"}
       /\ AcceptedPresent']_vars

\* the store of a worker holds an ended task next to a queued one
C29_Witness ==
    \E w \in Workers :
        /\ TerminalIds(w) # {}
        /\ \E id \in DOMAIN results_store[w] :
              results_store[w][id]["status"] = "queued"

\* --------------------------------------------- the order within a track
\* a result file is well formed: the starts of its words do not decrease
\* and no word starts after the end of the last segment (times are not
\* negative in any file)
WellFormedFile(data) ==
    LET segments == DictGet(data, "segments", <<>>)
        words == words_of(segments)
    IN /\ \A i \in 1 .. (Len(words) - 1) :
              words[i]["start"] <= words[i + 1]["start"]
       /\ \A i \in DOMAIN words :
              /\ words[i]["start"] >= 0
              /\ words[i]["start"] <= segments[Len(segments)]["end"]

WellFormed == \A n \in DOMAIN results_dir : WellFormedFile(results_dir[n])

\* the timeline with, for every word, where it comes from: the scanned
\* words tagged with their origin and put through the sort
TaggedTimeline ==
    LET from == origins(Len(Scanned))
    IN sorted_words([i \in DOMAIN scanned_words |->
                        [start |-> scanned_words[i]["start"],
                         word |-> scanned_words[i],
                         origin |-> from[i]]])

\* the place of a word of the timeline in the transcript: the phrase that
\* holds it and its place in that phrase; <<0, 0>> for a word in no phrase
PlaceInTranscript(i) ==
    IF \E k \in DOMAIN WordsOfPhrases :
           \E m \in DOMAIN WordsOfPhrases[k] : WordsOfPhrases[k][m] = i
    THEN CHOOSE km \in (DOMAIN WordsOfPhrases) \X (1 .. Len(all_words)) :
            /\ km[2] \in DOMAIN WordsOfPhrases[km[1]]
            /\ WordsOfPhrases[km[1]][km[2]] = i
    ELSE <<0, 0>>

\* C30: for well-formed result files the transcript keeps the order of the
\* chunks of every track: a word of a chunk of a track stands in an earlier
\* phrase than, or earlier in the same phrase as, every word of a later
\* chunk of the same track.
C30_TrackOrderKept ==
    (pc = "finished" /\ WellFormed) =>
        LET tagged == TaggedTimeline
        IN /\ [i \in DOMAIN tagged |-> tagged[i]["word"]] = all_words
           /\ Len(final_transcript) = Len(WordsOfPhrases)
           /\ \A i, j \in DOMAIN tagged :
                (/\ tagged[i]["origin"][2] = tagged[j]["origin"][2]
                 /\ tagged[i]["origin"][1] < tagged[j]["origin"][1]) =>
                    LET a == PlaceInTranscript(i)
                        b == PlaceInTranscript(j)
                    IN /\ a # <<0, 0>>
                       /\ b # <<0, 0>>
                       /\ \/ a[1] < b[1]
                          \/ a[1] = b[1] /\ a[2] < b[2]

\* two chunks of a track whose words meet at the same absolute start: the
\* word of the first chunk starts at the end of its segment, the word of
\* the second chunk at the start of its file
C30_Witness ==
    /\ pc = "finished"
    /\ WellFormed
    /\ Len(all_words) = 2
    /\ all_words[1]["start"] = all_words[2]["start"]
    /\ all_words[1]["start"] > 0
    /\ TaggedTimeline[1]["origin"][2] = TaggedTimeline[2]["origin"][2]
    /\ TaggedTimeline[1]["origin"][1] < TaggedTimeline[2]["origin"][1]

\* =========================================================== local client
\* local_client.py: main after the audio was cut into chunk_paths.  The
\* client talks to one worker without a proxy: worker 0 of the model.
\* what the local client leaves alone
local_frame ==
    <<num_workers, speaker, chunk_paths, futures, done, future, executor,
      track_jobs, results_dir, slept, processing, request, submitted,
      writes, all_words, cumulative_time, final_transcript, output_file,
      token_cache, lock, clock, handlers, fetches>>

\* the jobs in the order of chunk_jobs.items(): a dict keeps the order in
\* which its keys were put, and the n-th key has "order" n - 1
items(jobs) ==
    [k \in 1 .. Cardinality(DOMAIN jobs) |->
        CHOOSE id \in DOMAIN jobs : jobs[id]["order"] = k - 1]

\* step 3, lines 111-121: the next chunk is posted to /enqueue_chunk; the
\* worker enqueues it and the job is recorded, or the request fails and the
\* chunk is left out
local_enqueue ==
    /\ pc = "local_enqueue"
    /\ chunk_iterator < chunk_paths
    /\ \/ LET chunk_id == uuid4(chunk_iterator + 1)
              chunk_path == Audio(speaker, chunk_iterator)
          IN /\ task_queue' = [task_queue EXCEPT ![0] =
                    Append(@, [chunk_id |-> chunk_id,
                               file_path |-> chunk_path])]
             /\ results_store' = [results_store EXCEPT ![0] =
                    DictSet(@, chunk_id, [status |-> "queued"])]
             /\ chunk_jobs' = DictSet(chunk_jobs, chunk_id,
                    [path |-> chunk_path, status |-> "queued",
                     order |-> Cardinality(DOMAIN chunk_jobs)])
       \/ UNCHANGED <<task_queue, results_store, chunk_jobs>>
    /\ chunk_iterator' = chunk_iterator + 1
    /\ UNCHANGED <<pc, completed_jobs, cur_id, pbar, full_text>>
    /\ UNCHANGED local_frame

\* the for loop over chunk_paths is over; completed_jobs = 0 and the
\* progress bar is opened
local_enqueue_end ==
    /\ pc = "local_enqueue"
    /\ chunk_iterator = chunk_paths
    /\ pc' = "local_while"
    /\ UNCHANGED <<chunk_iterator, chunk_jobs, completed_jobs, cur_id, pbar,
                   full_text, task_queue, results_store>>
    /\ UNCHANGED local_frame

\* while completed_jobs < len(chunk_jobs): one more pass over the jobs;
\* cur_id is the place of the for loop in chunk_jobs.items()
local_while ==
    /\ pc = "local_while"
    /\ pc' = IF completed_jobs < Cardinality(DOMAIN chunk_jobs)
             THEN "local_for" ELSE "local_assemble"
    /\ cur_id' = 0
    /\ UNCHANGED <<chunk_iterator, chunk_jobs, completed_jobs, pbar,
                   full_text, task_queue, results_store>>
    /\ UNCHANGED local_frame

\* job_info["text"] = f"ERROR: {result.get('message', 'Unknown')}"
error_text(result) ==
    <<"ERROR:", " ", DictGet(result, "message", "Unknown")>>

\* lines 135-144: what a poll answer does to the job
polled(job, result) ==
    IF result["status"] = "completed"
    THEN [status |-> "completed", text |-> result["text"]] @@ job
    ELSE IF result["status"] = "error"
    THEN [status |-> "error", text |-> error_text(result)] @@ job
    ELSE job

\* the body of the for loop for one job, lines 129-148: a queued job is
\* polled once; the answer of the worker is taken, or the request fails
local_poll ==
    /\ pc = "local_for"
    /\ cur_id < Cardinality(DOMAIN chunk_jobs)
    /\ LET chunk_id == items(chunk_jobs)[cur_id + 1]
           job == chunk_jobs[chunk_id]
           response == get_result(0, chunk_id)
       IN IF job["status"] = "queued"
          THEN \/ /\ response.status_code = 200
                  /\ chunk_jobs' = DictSet(chunk_jobs, chunk_id,
                                           polled(job, response.json))
                  /\ IF response.json["status"] \in {"completed", "error"}
                     THEN /\ completed_jobs' = completed_jobs + 1
                          /\ pbar' = pbar + 1
                     ELSE UNCHANGED <<completed_jobs, pbar>>
               \/ UNCHANGED <<chunk_jobs, completed_jobs, pbar>>
          ELSE UNCHANGED <<chunk_jobs, completed_jobs, pbar>>
    /\ cur_id' = cur_id + 1
    /\ UNCHANGED <<pc, chunk_iterator, full_text, task_queue, results_store>>
    /\ UNCHANGED local_frame

\* the for loop is over: time.sleep(1) and back to the while test
local_for_end ==
    /\ pc = "local_for"
    /\ cur_id = Cardinality(DOMAIN chunk_jobs)
    /\ pc' = "local_while"
    /\ UNCHANGED <<chunk_iterator, chunk_jobs, completed_jobs, cur_id, pbar,
                   full_text, task_queue, results_store>>
    /\ UNCHANGED local_frame

\* " ".join(chunk["text"] for chunk in chunks if "text" in chunk)
RECURSIVE join_texts(_)
join_texts(chunks) ==
    IF chunks = <<>> THEN <<>>
    ELSE LET rest == join_texts(Tail(chunks))
         IN IF "text" \notin DOMAIN Head(chunks)
            THEN rest
            ELSE IF \A k \in DOMAIN Tail(chunks) :
                        "text" \notin DOMAIN Tail(chunks)[k]
                 THEN Head(chunks)["text"]
                 ELSE Head(chunks)["text"] \o <<" ">> \o rest

\* step 5, lines 153-161: sorted(chunk_jobs.values(), key=order), the join,
\* strip and the files
local_assemble ==
    /\ pc = "local_assemble"
    /\ LET by_order == [k \in DOMAIN items(chunk_jobs) |->
                           chunk_jobs[items(chunk_jobs)[k]]]
       IN full_text' = <<strip(join_texts(by_order))>>
    /\ pc' = "local_done"
    /\ UNCHANGED <<chunk_iterator, chunk_jobs, completed_jobs, cur_id, pbar,
                   task_queue, results_store>>
    /\ UNCHANGED local_frame

LocalInit ==
    /\ num_workers = 1
    /\ pc = "local_enqueue"
    /\ speaker = "track_0"
    /\ chunk_paths \in 1 .. MaxChunks
    /\ chunk_iterator = 0
    /\ futures = {}
    /\ done = {}
    /\ future = -1
    /\ executor = EmptyDict
    /\ track_jobs = EmptyDict
    /\ cur_id = 0
    /\ results_dir = EmptyDict
    /\ pbar = 0
    /\ slept = 0
    /\ task_queue = [w \in Workers |-> <<>>]
    /\ results_store = [w \in Workers |-> EmptyDict]
    /\ processing = [w \in Workers |-> None]
    /\ request = None
    /\ submitted = <<>>
    /\ writes = EmptyDict
    /\ all_words = <<>>
    /\ cumulative_time = 0
    /\ final_transcript = <<>>
    /\ output_file = None
    /\ ProxyIdle
    /\ LocalIdle

LocalNext ==
    \/ local_enqueue
    \/ local_enqueue_end
    \/ local_while
    \/ local_poll
    \/ local_for_end
    \/ local_assemble
    \/ \E w \in Workers : task_queue_get(w)
    \/ \E w \in Workers : transcribe_completed(w)
    \/ \E w \in Workers : transcribe_error(w)

LocalSpec == LocalInit /\ [][LocalNext]_vars

\* the jobs of the run in dispatch order
JobsInOrder ==
    [k \in DOMAIN items(chunk_jobs) |-> chunk_jobs[items(chunk_jobs)[k]]]

IsCompleted(job) == job["status"] = "completed"

\* the texts the worker produced for the completed jobs, in dispatch order
CompletedTexts ==
    LET completed == SelectSeq(JobsInOrder, IsCompleted)
    IN [k \in DOMAIN completed |-> [text |-> Transcribe(completed[k]["path"])]]

\* C27: in the local client a chunk whose job ends with status error adds
\* no text to the final transcript: when the run is over, the transcript is
\* the texts of the completed chunks only, joined with blanks in dispatch
\* order, whatever the order in which the jobs were seen to complete.
C27_ErrorChunkSkipped ==
    pc = "local_done" =>
        full_text = <<strip(join_texts(CompletedTexts))>>

\* ------------------------------------------------ window and assignment
\* the pairs of different chunks among inflight whose uploads go to the
\* same worker
ShareWorker(inflight) ==
    {p \in inflight \X inflight :
        p[1] < p[2] /\ executor[p[1]].worker_id = executor[p[2]].worker_id}

\* C31 as stated: at no time are two jobs in flight of a track assigned to
\* the same worker.
C31_OnePerWorker == ShareWorker(InFlight) = {}

\* C31, amended: two jobs in flight whose orders differ by less than the
\* worker count are never assigned to the same worker; two jobs in flight
\* share a worker only when their orders differ by a multiple of the worker
\* count, the later chunk having been submitted while the earlier one was
\* still in flight.
C31_OnePerWorkerWithinWindow ==
    \A p \in ShareWorker(InFlight) :
        /\ p[2] - p[1] >= num_workers
        /\ (p[2] - p[1]) % num_workers = 0

\* chunk 2 was submitted to worker 0 of two while chunk 0 is still in flight
\* there
C31_Witness ==
    /\ num_workers = 2
    /\ <<0, 2>> \in ShareWorker(InFlight)

====
